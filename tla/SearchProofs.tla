---------------------------- MODULE SearchProofs -----------------------------
(* Proofs about Search.                                                      *)
EXTENDS Search, FiniteSetTheorems, SequenceTheorems, WellFoundedInduction, TLAPS

-----------------------------------------------------------------------------
(* Least counterexamples: induction over the natural numbers.               *)

\* A set of natural numbers that is not empty has a least element.
LEMMA LeastElement ==
    ASSUME NEW T, T \subseteq Nat, T # {}
    PROVE  \E x \in T : \A y \in T : ~(y < x)
<1>1. IsWellFoundedOn(OpToRel(<, Nat), Nat)
  BY NatLessThanWellFounded
<1>2. \E x \in T : \A y \in T : ~(<<y, x>> \in OpToRel(<, Nat))
  BY <1>1, WFMin
<1> QED
  BY <1>2 DEF OpToRel

-----------------------------------------------------------------------------
(* The value of a filter.                                                   *)

TruthValue == {"T", "F", "N"}

IsTruth(t, f, atoms, n) ==
    t = [k \in 1 .. n |-> Combined(f[k], atoms[k], {t[j] : j \in f[k].of})]

LEMMA FilterShape ==
    ASSUME NEW f, IsFilter(f)
    PROVE  /\ Len(f) \in Nat /\ Len(f) # 0 /\ DOMAIN f = 1 .. Len(f)
           /\ \A k \in 1 .. Len(f) : f[k].of \subseteq 1 .. (k - 1)
<1>1. f \in Seq(Range(f)) /\ f # <<>>
  BY DEF IsFilter, IsSeq
<1>2. Len(f) \in Nat /\ DOMAIN f = 1 .. Len(f) /\ Len(f) # 0
  BY <1>1, EmptySeq, LenProperties
<1> QED
  BY <1>2 DEF IsFilter

\* The recursive definition of Truth has a solution.
LEMMA TruthExists ==
    ASSUME NEW f, IsFilter(f), NEW atoms, NEW n \in 0 .. Len(f)
    PROVE  \E t : IsTruth(t, f, atoms, n)
<1> DEFINE T == {m \in Nat : m <= Len(f) /\ ~ \E t : IsTruth(t, f, atoms, m)}
<1> SUFFICES ASSUME T # {} PROVE FALSE
  BY FilterShape
<1>1. PICK m \in T : \A y \in T : ~(y < m)
  BY LeastElement
<1>2. CASE m = 0
  <2>1. IsTruth([k \in 1 .. 0 |-> 0], f, atoms, 0)
    BY DEF IsTruth
  <2> QED
    BY <1>1, <1>2, <2>1
<1>3. CASE m # 0
  <2>1. m - 1 \in Nat /\ m - 1 < m /\ m - 1 <= Len(f) /\ m \in Nat /\ m <= Len(f)
    BY <1>1, <1>3, FilterShape
  <2>2. PICK t : IsTruth(t, f, atoms, m - 1)
    BY <1>1, <2>1
  <2> DEFINE c == Combined(f[m], atoms[m], {t[j] : j \in f[m].of})
  <2> DEFINE s == [k \in 1 .. m |-> IF k = m THEN c ELSE t[k]]
  <2>3. \A k \in 1 .. m : f[k].of \subseteq 1 .. (k - 1)
    BY <2>1, FilterShape
  <2>4. \A k \in 1 .. m : {s[j] : j \in f[k].of} = {t[j] : j \in f[k].of}
    <3> SUFFICES ASSUME NEW k \in 1 .. m PROVE {s[j] : j \in f[k].of} = {t[j] : j \in f[k].of}
      OBVIOUS
    <3>1. \A j \in f[k].of : s[j] = t[j]
      BY <2>1, <2>3
    <3> HIDE DEF s
    <3> QED
      BY <3>1
  <2>5. \A k \in 1 .. m : s[k] = Combined(f[k], atoms[k], {s[j] : j \in f[k].of})
    <3> SUFFICES ASSUME NEW k \in 1 .. m
                 PROVE  s[k] = Combined(f[k], atoms[k], {s[j] : j \in f[k].of})
      OBVIOUS
    <3>1. s[k] = Combined(f[k], atoms[k], {t[j] : j \in f[k].of})
      <4>1. k # m => k \in 1 .. (m - 1)
        BY <2>1
      <4>2. \A i \in 1 .. (m - 1) : t[i] = Combined(f[i], atoms[i], {t[j] : j \in f[i].of})
        BY <2>2 DEF IsTruth
      <4>3. CASE k = m
        BY <4>3
      <4>4. CASE k # m
        BY <4>1, <4>2, <4>4
      <4> QED
        BY <4>3, <4>4
    <3> QED
      BY <3>1, <2>4
  <2>6. IsTruth(s, f, atoms, m)
    BY <2>5 DEF IsTruth
  <2> QED
    BY <1>1, <2>6
<1> QED
  BY <1>2, <1>3

\* What a node combines.
Operands(f, atoms, k) == {Truth(f, atoms)[j] : j \in f[k].of}

\* Truth unfolds.
LEMMA TruthUnfolds ==
    ASSUME NEW f, IsFilter(f), NEW atoms
    PROVE  \A k \in 1 .. Len(f) :
              Truth(f, atoms)[k] = Combined(f[k], atoms[k], Operands(f, atoms, k))
<1>1. DOMAIN f = 1 .. Len(f) /\ Len(f) \in 0 .. Len(f)
  BY FilterShape
<1>2. PICK t : IsTruth(t, f, atoms, Len(f))
  BY <1>1, TruthExists
<1>3. t = [k \in DOMAIN f |-> Combined(f[k], atoms[k], {t[j] : j \in f[k].of})]
  BY <1>1, <1>2 DEF IsTruth
<1>4. Truth(f, atoms) =
         [k \in DOMAIN f |-> Combined(f[k], atoms[k], {Truth(f, atoms)[j] : j \in f[k].of})]
  BY <1>3 DEF Truth
<1> QED
  BY <1>1, <1>4 DEF Operands

LEMMA CombinedTyped ==
    ASSUME NEW p, NEW atom, NEW values,
           p.op \notin Connective => atom \in TruthValue
    PROVE  Combined(p, atom, values) \in TruthValue
BY DEF Combined, Connective, TruthValue, AllOf, AnyOf, Negation

LEMMA TruthTyped ==
    ASSUME NEW f, IsFilter(f), NEW atoms, \A k \in Leaves(f) : atoms[k] \in TruthValue
    PROVE  \A k \in 1 .. Len(f) : Truth(f, atoms)[k] \in TruthValue
<1>1. \A k \in 1 .. Len(f) : f[k].op \notin Connective => atoms[k] \in TruthValue
  BY FilterShape DEF Leaves
<1> SUFFICES ASSUME NEW k \in 1 .. Len(f) PROVE Truth(f, atoms)[k] \in TruthValue
  OBVIOUS
<1>2. Truth(f, atoms)[k] = Combined(f[k], atoms[k], Operands(f, atoms, k))
  BY TruthUnfolds
<1> QED
  BY <1>1, <1>2, CombinedTyped

\* Two filters whose nodes up to n combine the same places, and whose leaves
\* have the same value (a leaf of the first may be a constant in the second).
SameNode(p, a, q, b) ==
    \/ p.op \in Connective /\ q.op = p.op /\ q.of = p.of
    \/ p.op \notin Connective /\ q.of = {} /\ Combined(q, b, {}) = a

LEMMA TruthAgrees ==
    ASSUME NEW f, IsFilter(f), NEW a, NEW g, IsFilter(g), NEW b,
           NEW n \in Nat, n <= Len(f), n <= Len(g),
           \A k \in 1 .. n : SameNode(f[k], a[k], g[k], b[k])
    PROVE  \A k \in 1 .. n : Truth(f, a)[k] = Truth(g, b)[k]
<1> DEFINE T == {m \in 1 .. n : Truth(f, a)[m] # Truth(g, b)[m]}
<1> SUFFICES ASSUME T # {} PROVE FALSE
  OBVIOUS
<1>0. T \subseteq Nat
  OBVIOUS
<1>1. PICK m \in T : \A y \in T : ~(y < m)
  <2> HIDE DEF T
  <2> QED
    BY <1>0, LeastElement
<1>2. m \in 1 .. Len(f) /\ m \in 1 .. Len(g) /\ m \in 1 .. n
  BY FilterShape
<1> DEFINE v == Operands(f, a, m)
<1> DEFINE w == Operands(g, b, m)
<1>3. Truth(f, a)[m] = Combined(f[m], a[m], v) /\ Truth(g, b)[m] = Combined(g[m], b[m], w)
  BY <1>2, TruthUnfolds
<1>4. f[m].of \subseteq 1 .. (m - 1)
  BY <1>2, FilterShape
<1>5. \A j \in f[m].of : Truth(f, a)[j] = Truth(g, b)[j]
  <2>1. \A j \in f[m].of : j \in 1 .. n /\ j < m
    BY <1>2, <1>4
  <2> QED
    BY <1>1, <2>1
<1>6. CASE f[m].op \in Connective /\ g[m].op = f[m].op /\ g[m].of = f[m].of
  <2>1. v = w
    BY <1>5, <1>6 DEF Operands
  <2> HIDE DEF v, w
  <2>2. Combined(f[m], a[m], v) = Combined(g[m], b[m], w)
    BY <1>6, <2>1 DEF Combined, Connective
  <2> QED
    BY <1>3, <2>2
<1>7. CASE f[m].op \notin Connective /\ g[m].of = {} /\ Combined(g[m], b[m], {}) = a[m]
  <2>1. w = {}
    BY <1>7 DEF Operands
  <2>2. Combined(f[m], a[m], v) = a[m]
    BY <1>7 DEF Combined, Connective
  <2> HIDE DEF v, w
  <2> QED
    BY <1>3, <1>7, <2>1, <2>2
<1> QED
  BY <1>2, <1>6, <1>7 DEF SameNode

\* Without negations, what the second filter finds the first one finds too.
WiderNode(p, a, q, b) ==
    \/ p.op \in {"And", "Or"} /\ q.op = p.op /\ q.of = p.of
    \/ p.op \notin Connective /\ q.of = {} /\ (Combined(q, b, {}) = "T" => a = "T")

LEMMA TruthGrows ==
    ASSUME NEW f, IsFilter(f), NEW a, \A k \in Leaves(f) : a[k] \in TruthValue,
           NEW g, IsFilter(g), NEW b, \A k \in Leaves(g) : b[k] \in TruthValue,
           Len(g) = Len(f),
           \A k \in 1 .. Len(f) : WiderNode(f[k], a[k], g[k], b[k])
    PROVE  \A k \in 1 .. Len(f) : Truth(g, b)[k] = "T" => Truth(f, a)[k] = "T"
<1> DEFINE T == {m \in 1 .. Len(f) : Truth(g, b)[m] = "T" /\ Truth(f, a)[m] # "T"}
<1> SUFFICES ASSUME T # {} PROVE FALSE
  OBVIOUS
<1>0. T \subseteq Nat
  OBVIOUS
<1>1. PICK m \in T : \A y \in T : ~(y < m)
  <2> HIDE DEF T
  <2> QED
    BY <1>0, LeastElement
<1>2. m \in 1 .. Len(f)
  OBVIOUS
<1> DEFINE v == Operands(f, a, m)
<1> DEFINE w == Operands(g, b, m)
<1>3. Truth(f, a)[m] = Combined(f[m], a[m], v) /\ Truth(g, b)[m] = Combined(g[m], b[m], w)
  BY <1>2, TruthUnfolds
<1>4. f[m].of \subseteq 1 .. (m - 1)
  BY <1>2, FilterShape
<1>5. \A j \in f[m].of : j \in 1 .. Len(f) /\ (Truth(g, b)[j] = "T" => Truth(f, a)[j] = "T")
  <2>1. \A j \in f[m].of : j \in 1 .. Len(f) /\ j < m
    BY <1>2, <1>4, FilterShape
  <2> QED
    BY <1>1, <2>1
<1>6. CASE f[m].op \in {"And", "Or"} /\ g[m].op = f[m].op /\ g[m].of = f[m].of
  <2>1. v \subseteq TruthValue /\ w \subseteq TruthValue
    BY <1>5, <1>6, TruthTyped DEF Operands
  <2>2. ("T" \in w => "T" \in v) /\ (w \subseteq {"T"} => v \subseteq {"T"})
    BY <1>5, <1>6 DEF Operands
  <2> HIDE DEF v, w
  <2>3. Combined(g[m], b[m], w) = "T" => Combined(f[m], a[m], v) = "T"
    BY <1>6, <2>1, <2>2 DEF Combined, AllOf, AnyOf, TruthValue
  <2> QED
    BY <1>3, <2>3
<1>7. CASE f[m].op \notin Connective /\ g[m].of = {} /\ (Combined(g[m], b[m], {}) = "T" => a[m] = "T")
  <2>1. w = {}
    BY <1>7 DEF Operands
  <2>2. Combined(f[m], a[m], v) = a[m]
    BY <1>7 DEF Combined, Connective
  <2> HIDE DEF v, w
  <2> QED
    BY <1>3, <1>7, <2>1, <2>2
<1> QED
  BY <1>2, <1>6, <1>7 DEF WiderNode

-----------------------------------------------------------------------------
(* A filter and one more leaf.                                              *)

IsLeaf(p) == p.op \notin Connective /\ p.of = {}

\* The node that joins a filter of n nodes and a leaf.
Joint(n) == Node("And", {n, n + 1})

LEMMA JointFields == \A n : Joint(n).op = "And" /\ Joint(n).of = {n, n + 1}
BY DEF Joint, Node

LEMMA SeqFromDomain ==
    ASSUME NEW s, NEW S, s \in Seq(S)
    PROVE  IsSeq(s)
<1>1. Len(s) \in Nat /\ s \in [1 .. Len(s) -> S] /\ DOMAIN s = 1 .. Len(s)
  BY LenProperties
<1>2. s \in [1 .. Len(s) -> Range(s)]
  BY <1>1 DEF Range
<1> QED
  BY <1>1, <1>2, SeqDef DEF IsSeq

LEMMA BothShape ==
    ASSUME NEW f, IsFilter(f), NEW p, IsLeaf(p)
    PROVE  /\ IsFilter(Both(f, p))
           /\ Len(Both(f, p)) = Len(f) + 2
           /\ DOMAIN Both(f, p) = 1 .. (Len(f) + 2)
           /\ \A k \in 1 .. Len(f) : Both(f, p)[k] = f[k]
           /\ Both(f, p)[Len(f) + 1] = p
           /\ Both(f, p)[Len(f) + 2] = Joint(Len(f))
<1> DEFINE n == Len(f)
           q == Joint(n)
           s == <<p, q>>
           S == Range(f) \cup {p, q}
           g == Both(f, p)
<1>1. n \in Nat /\ n # 0 /\ DOMAIN f = 1 .. n
  BY FilterShape
<1>2. f \in Seq(S)
  <2>1. f \in Seq(Range(f))
    BY DEF IsFilter, IsSeq
  <2> HIDE DEF q
  <2> QED
    BY <2>1, SeqMonotonic
<1>3. s \in Seq(S) /\ Len(s) = 2 /\ s[1] = p /\ s[2] = q
  <2> HIDE DEF q
  <2> QED
    OBVIOUS
<1>4. g = f \o s
  BY DEF Both, Joint
<1> HIDE DEF s, S, g, q
<1>5. /\ g \in Seq(S) /\ Len(g) = n + 2
      /\ \A k \in 1 .. n + 2 : g[k] = IF k <= n THEN f[k] ELSE s[k - n]
  <2>1. /\ f \o s \in Seq(S) /\ Len(f \o s) = Len(f) + Len(s)
        /\ \A k \in 1 .. Len(f) + Len(s) :
              (f \o s)[k] = IF k <= Len(f) THEN f[k] ELSE s[k - Len(f)]
    BY <1>2, <1>3, ConcatProperties
  <2> QED
    BY <1>3, <1>4, <2>1
<1>6. DOMAIN g = 1 .. (n + 2) /\ IsSeq(g) /\ g # <<>>
  BY <1>1, <1>5, LenProperties, SeqFromDomain, EmptySeq
<1>7. (\A k \in 1 .. n : g[k] = f[k]) /\ g[n + 1] = p /\ g[n + 2] = q
  <2>1. \A k \in 1 .. n : k \in 1 .. n + 2 /\ k <= n
    BY <1>1
  <2>2. \A k \in 1 .. n : g[k] = f[k]
    BY <2>1, <1>5
  <2>3. n + 1 \in 1 .. n + 2 /\ ~(n + 1 <= n) /\ (n + 1) - n = 1
    BY <1>1
  <2>4. n + 2 \in 1 .. n + 2 /\ ~(n + 2 <= n) /\ (n + 2) - n = 2
    BY <1>1
  <2>5. g[n + 1] = s[1] /\ g[n + 2] = s[2]
    BY <1>5, <2>3, <2>4
  <2> QED
    BY <1>3, <2>2, <2>5
<1>8. \A k \in 1 .. (n + 2) : g[k].of \subseteq 1 .. (k - 1) /\ (g[k].op \notin Connective => g[k].of = {})
  <2> SUFFICES ASSUME NEW k \in 1 .. (n + 2)
               PROVE  g[k].of \subseteq 1 .. (k - 1) /\ (g[k].op \notin Connective => g[k].of = {})
    OBVIOUS
  <2>1. CASE k \in 1 .. n
    BY <1>1, <1>7, <2>1 DEF IsFilter, Leaves
  <2>2. CASE k = n + 1
    BY <1>7, <2>2 DEF IsLeaf
  <2>3. CASE k = n + 2
    <3>1. q.op = "And" /\ q.of = {n, n + 1}
      BY JointFields DEF q
    <3> QED
      BY <1>1, <1>7, <2>3, <3>1 DEF Connective
  <2> QED
    BY <1>1, <2>1, <2>2, <2>3
<1>9. IsFilter(g)
  BY <1>6, <1>8 DEF IsFilter, Leaves
<1> QED
  BY <1>5, <1>6, <1>7, <1>9 DEF g, q

LEMMA BothValue ==
    ASSUME NEW f, IsFilter(f), NEW p, IsLeaf(p),
           NEW a, \A k \in Leaves(f) : a[k] \in TruthValue,
           NEW b, \A k \in Leaves(f) : b[k] = a[k],
           b[Len(f) + 1] \in TruthValue
    PROVE  Value(Both(f, p), b) = "T" <=> Value(f, a) = "T" /\ b[Len(f) + 1] = "T"
<1> DEFINE g == Both(f, p)
           n == Len(f)
           v == Truth(f, a)[n]
<1>1. n \in Nat /\ n # 0 /\ DOMAIN f = 1 .. n /\ n \in 1 .. n
  BY FilterShape
<1>2. /\ IsFilter(g) /\ Len(g) = n + 2 /\ g[n + 1] = p
      /\ g[n + 2].op = "And" /\ g[n + 2].of = {n, n + 1}
      /\ \A k \in 1 .. n : g[k] = f[k]
  <2>1. /\ IsFilter(g) /\ Len(g) = n + 2 /\ g[n + 1] = p
        /\ g[n + 2] = Joint(n)
        /\ \A k \in 1 .. n : g[k] = f[k]
    BY BothShape
  <2> QED
    BY <2>1, JointFields
<1> HIDE DEF g
<1>3. \A k \in 1 .. n : SameNode(f[k], a[k], g[k], b[k])
  <2> SUFFICES ASSUME NEW k \in 1 .. n PROVE SameNode(f[k], a[k], g[k], b[k])
    OBVIOUS
  <2>1. g[k] = f[k]
    BY <1>2
  <2>2. CASE f[k].op \in Connective
    BY <2>1, <2>2 DEF SameNode
  <2>3. CASE f[k].op \notin Connective
    <3>1. k \in Leaves(f) /\ f[k].of = {}
      BY <1>1, <2>3 DEF IsFilter, Leaves
    <3> QED
      BY <2>1, <2>3, <3>1 DEF SameNode, Combined, Connective
  <2> QED
    BY <2>2, <2>3
<1>4. Truth(g, b)[n] = v
  BY <1>1, <1>2, <1>3, TruthAgrees
<1>5. v \in TruthValue
  BY <1>1, TruthTyped
<1>6. Truth(g, b)[n + 1] = b[n + 1]
  <2>1. n + 1 \in 1 .. Len(g)
    BY <1>1, <1>2
  <2>2. Truth(g, b)[n + 1] = Combined(g[n + 1], b[n + 1], Operands(g, b, n + 1))
    BY <1>2, <2>1, TruthUnfolds
  <2> QED
    BY <1>2, <2>2 DEF Combined, IsLeaf, Connective
<1>7. Truth(g, b)[n + 2] = AllOf({v, b[n + 1]})
  <2>1. n + 2 \in 1 .. Len(g)
    BY <1>1, <1>2
  <2>2. Truth(g, b)[n + 2] = Combined(g[n + 2], b[n + 2], Operands(g, b, n + 2))
    BY <1>2, <2>1, TruthUnfolds
  <2>3. Operands(g, b, n + 2) = {v, b[n + 1]}
    BY <1>2, <1>4, <1>6 DEF Operands
  <2> QED
    BY <1>2, <2>2, <2>3 DEF Combined
<1>8. AllOf({v, b[n + 1]}) = "T" <=> v = "T" /\ b[n + 1] = "T"
  BY <1>5 DEF AllOf, TruthValue
<1> QED
  BY <1>2, <1>7, <1>8 DEF Value, g

-----------------------------------------------------------------------------
(* Conversion, node by node.                                                *)

UserOp == {"UserId", "Equality", "AttributeEquality", "MemberOf", "MemberOfId",
           "UserIdSubString", "SubString"}
GroupOp == {"DisplayName", "GroupId", "Uuid", "Member", "DisplayNameSubString", "AttributeEquality"}

LEMMA LeafFields ==
    ASSUME NEW op, NEW field, NEW v
    PROVE  /\ Leaf(op, field, v).op = op /\ Leaf(op, field, v).field = field
           /\ Leaf(op, field, v).v = v /\ Leaf(op, field, v).of = {}
BY DEF Leaf

LEMMA FromBoolFields ==
    ASSUME NEW b
    PROVE  /\ FromBool(b).op = IF b THEN "And" ELSE "Not"
           /\ FromBool(b).of = {}
           /\ Error.op = "Error" /\ Error.of = {}
BY DEF FromBool, Node, Error

\* A constant is its truth value, whatever the atoms are.
LEMMA FromBoolValue ==
    ASSUME NEW b, NEW atom
    PROVE  Combined(FromBool(b), atom, {}) = Bool(b)
BY FromBoolFields DEF Combined, AllOf, Negation, Bool

LEMMA UserKinds ==
    ASSUME NEW field, NEW s
    PROVE  MapUserField(field, s) \in
              {"MemberOf", "ObjectClass", "Dn", "EntryDn", "UserId", "Email", "DisplayName",
               "CreationDate", "Uuid", "Attribute", "NoMatch"}
BY DEF MapUserField, UserFieldType

LEMMA GroupKinds ==
    ASSUME NEW field, NEW s
    PROVE  MapGroupField(field, s) \in
              {"Dn", "EntryDn", "ObjectClass", "DisplayName", "CreationDate", "Member", "Uuid",
               "Attribute", "NoMatch"}
BY DEF MapGroupField, GroupFieldType

\* What a node that is not a connective is converted to.
NodeOf(q, Ops) ==
    q.of = {} /\ (q.op = "Error" \/ q.op \in Ops \/ q = FromBool(TRUE) \/ q = FromBool(FALSE))

LEMMA NodeForms ==
    ASSUME NEW Ops
    PROVE  NodeOf(Error, Ops) /\ NodeOf(FromBool(FALSE), Ops)
BY FromBoolFields DEF NodeOf

LEMMA FromBoolNode ==
    ASSUME NEW Ops, NEW b
    PROVE  NodeOf(FromBool(b), Ops)
<1>1. FromBool(b) = FromBool(TRUE) \/ FromBool(b) = FromBool(FALSE)
  BY DEF FromBool
<1> QED
  BY <1>1, FromBoolFields DEF NodeOf

LEMMA LeafNode ==
    ASSUME NEW Ops, NEW op \in Ops, NEW field, NEW v
    PROVE  NodeOf(Leaf(op, field, v), Ops)
<1>1. Leaf(op, field, v).of = {}
  BY DEF Leaf
<1>2. Leaf(op, field, v).op \in Ops
  BY DEF Leaf
<1> QED
  BY <1>1, <1>2 DEF NodeOf

LEMMA AttributeEqualityNode ==
    ASSUME NEW a, NEW t, NEW Ops, "AttributeEquality" \in Ops
    PROVE  NodeOf(AttributeEquality(a, t), Ops)
BY NodeForms, LeafNode DEF AttributeEquality

LEMMA UserNodeShape ==
    ASSUME NEW p, NEW s
    PROVE  IF p.op \in Connective THEN UserNode(p, s) = p ELSE NodeOf(UserNode(p, s), UserOp)
<1>1. CASE p.op \in Connective
  BY <1>1 DEF UserNode, Connective
<1>2. CASE p.op = "Equality"
  <2> DEFINE kind == MapUserField(p.field, s)
             v == LowerValue(p.v)
             id == IdFromDn(v.dn, People)
             group == IdFromDn(v.dn, Groups)
  <2>1. UserNode(p, s) = UserEquality(p.field, v, s)
    BY <1>2 DEF UserNode, Connective
  <2>2. NodeOf(AttributeEquality(AttributeOf(p.field), v.text), UserOp)
    BY AttributeEqualityNode DEF UserOp
  <2>3. /\ NodeOf(Leaf("UserId", "", v.text), UserOp)
        /\ NodeOf(Leaf("Equality", kind, v.text), UserOp)
        /\ NodeOf(Leaf("MemberOf", "", group), UserOp)
        /\ NodeOf(Leaf("UserId", "", id), UserOp)
    BY NodeForms, LeafNode DEF UserOp
  <2>4. /\ NodeOf(FromBool(FALSE), UserOp) /\ NodeOf(FromBool(v.text \in UserClass), UserOp)
        /\ NodeOf(Error, UserOp)
    BY NodeForms, FromBoolNode
  <2>5. NodeOf(UserEquality(p.field, v, s), UserOp)
    BY <2>2, <2>3, <2>4, UserKinds DEF UserEquality
  <2> QED
    BY <1>2, <2>1, <2>5 DEF Connective
<1>3. CASE p.op = "Present"
  BY <1>3, FromBoolNode DEF UserNode, Connective
<1>4. CASE p.op = "Substring"
  <2> DEFINE kind == MapUserField(p.field, s)
             v == p.v.like
  <2>1. UserNode(p, s) = UserSubstring(p.field, v, s)
    BY <1>4 DEF UserNode, Connective
  <2>2. /\ NodeOf(Leaf("UserIdSubString", "", v), UserOp)
        /\ NodeOf(Leaf("SubString", kind, v), UserOp)
        /\ NodeOf(FromBool(FALSE), UserOp) /\ NodeOf(Error, UserOp)
    BY NodeForms, LeafNode DEF UserOp
  <2>3. NodeOf(UserSubstring(p.field, v, s), UserOp)
    BY <2>2 DEF UserSubstring
  <2> QED
    BY <1>4, <2>1, <2>3 DEF Connective
<1>5. CASE p.op \notin Connective \cup {"Equality", "Present", "Substring"}
  BY <1>5, NodeForms DEF UserNode
<1> QED
  BY <1>1, <1>2, <1>3, <1>4, <1>5

LEMMA GroupNodeShape ==
    ASSUME NEW p, NEW s
    PROVE  IF p.op \in Connective THEN GroupNode(p, s) = p ELSE NodeOf(GroupNode(p, s), GroupOp)
<1>1. CASE p.op \in Connective
  BY <1>1 DEF GroupNode, Connective
<1>2. CASE p.op = "Equality"
  <2> DEFINE kind == MapGroupField(p.field, s)
             v == LowerValue(p.v)
             id == IdFromDn(v.dn, People)
             group == IdFromDn(v.dn, Groups)
             oc == GroupClass \cup {"groupofnames"}
  <2>1. GroupNode(p, s) = GroupEquality(p.field, v, s)
    BY <1>2 DEF GroupNode, Connective
  <2>2. NodeOf(AttributeEquality(p.field, v.text), GroupOp)
    BY AttributeEqualityNode DEF GroupOp
  <2>3. /\ NodeOf(Leaf("DisplayName", "", v.text), GroupOp)
        /\ NodeOf(Leaf("Uuid", "", v.text), GroupOp)
        /\ NodeOf(Leaf("Member", "", id), GroupOp)
        /\ NodeOf(Leaf("DisplayName", "", group), GroupOp)
    BY NodeForms, LeafNode DEF GroupOp
  <2>4. /\ NodeOf(FromBool(FALSE), GroupOp) /\ NodeOf(FromBool(v.text \in oc), GroupOp)
        /\ NodeOf(Error, GroupOp)
    BY NodeForms, FromBoolNode
  <2>5. NodeOf(GroupEquality(p.field, v, s), GroupOp)
    BY <2>2, <2>3, <2>4, GroupKinds DEF GroupEquality
  <2> QED
    BY <1>2, <2>1, <2>5 DEF Connective
<1>3. CASE p.op = "Present"
  BY <1>3, FromBoolNode DEF GroupNode, Connective
<1>4. CASE p.op = "Substring"
  <2> DEFINE v == p.v.like
  <2>1. GroupNode(p, s) = GroupSubstring(p.field, v, s)
    BY <1>4 DEF GroupNode, Connective
  <2>2. /\ NodeOf(Leaf("DisplayNameSubString", "", v), GroupOp)
        /\ NodeOf(FromBool(FALSE), GroupOp) /\ NodeOf(Error, GroupOp)
    BY NodeForms, LeafNode DEF GroupOp
  <2>3. NodeOf(GroupSubstring(p.field, v, s), GroupOp)
    BY <2>2 DEF GroupSubstring
  <2> QED
    BY <1>4, <2>1, <2>3 DEF Connective
<1>5. CASE p.op \notin Connective \cup {"Equality", "Present", "Substring"}
  BY <1>5, NodeForms DEF GroupNode
<1> QED
  BY <1>1, <1>2, <1>3, <1>4, <1>5

LEMMA FunctionIsSeq ==
    ASSUME NEW n \in Nat, NEW s, s = [k \in 1 .. n |-> s[k]]
    PROVE  IsSeq(s) /\ Len(s) = n /\ DOMAIN s = 1 .. n
<1>1. DOMAIN s = 1 .. n /\ s \in [1 .. n -> Range(s)]
  BY DEF Range
<1>2. s \in Seq(Range(s))
  BY <1>1, SeqDef
<1>3. Len(s) \in Nat /\ DOMAIN s = 1 .. Len(s)
  BY <1>2, LenProperties
<1>4. Len(s) = n
  BY <1>1, <1>3
<1> QED
  BY <1>1, <1>2, <1>4 DEF IsSeq

\* The filters that list_users and list_groups get.
IsFor(c, Ops) == IsFilter(c) /\ \A k \in Leaves(c) : c[k].op \in Ops

LEMMA ConvertedFilter ==
    ASSUME NEW f, IsFilter(f), NEW c, c = [k \in DOMAIN f |-> c[k]], ~IsError(c), NEW Ops,
           \A k \in DOMAIN f : IF f[k].op \in Connective THEN c[k] = f[k] ELSE NodeOf(c[k], Ops)
    PROVE  IsFor(c, Ops) /\ Len(c) = Len(f) /\ DOMAIN c = 1 .. Len(f)
<1>1. Len(f) \in Nat /\ Len(f) # 0 /\ DOMAIN f = 1 .. Len(f)
  BY FilterShape
<1>2. IsSeq(c) /\ Len(c) = Len(f) /\ DOMAIN c = 1 .. Len(f)
  BY <1>1, FunctionIsSeq
<1>3. c # <<>>
  BY <1>1, <1>2
<1>4. ASSUME NEW k \in 1 .. Len(f)
      PROVE  /\ c[k].of \subseteq 1 .. (k - 1)
             /\ c[k].op \notin Connective => c[k].of = {} /\ c[k].op \in Ops
  <2>1. CASE f[k].op \in Connective
    BY <1>1, <2>1, FilterShape
  <2>2. CASE f[k].op \notin Connective
    <3>1. NodeOf(c[k], Ops) /\ c[k].op # "Error"
      BY <1>1, <1>2, <2>2 DEF IsError
    <3>2. FromBool(TRUE).op \in Connective /\ FromBool(FALSE).op \in Connective
      BY FromBoolFields DEF Connective
    <3> QED
      BY <3>1, <3>2 DEF NodeOf
  <2> QED
    BY <2>1, <2>2
<1> QED
  BY <1>2, <1>3, <1>4 DEF IsFor, IsFilter, Leaves

LEMMA ConvertedUser ==
    ASSUME NEW f, IsFilter(f), NEW s, ~IsError(ConvertUserFilter(f, s))
    PROVE  /\ IsFor(ConvertUserFilter(f, s), UserOp)
           /\ Len(ConvertUserFilter(f, s)) = Len(f) /\ DOMAIN ConvertUserFilter(f, s) = 1 .. Len(f)
           /\ \A k \in 1 .. Len(f) : ConvertUserFilter(f, s)[k] = UserNode(f[k], s)
<1> DEFINE c == ConvertUserFilter(f, s)
<1>1. c = [k \in DOMAIN f |-> c[k]] /\ \A k \in DOMAIN f : c[k] = UserNode(f[k], s)
  BY DEF ConvertUserFilter
<1> HIDE DEF c
<1>2. \A k \in DOMAIN f : IF f[k].op \in Connective THEN c[k] = f[k] ELSE NodeOf(c[k], UserOp)
  BY <1>1, UserNodeShape
<1>3. IsFor(c, UserOp) /\ Len(c) = Len(f) /\ DOMAIN c = 1 .. Len(f)
  BY <1>1, <1>2, ConvertedFilter DEF c
<1> QED
  BY <1>1, <1>3, FilterShape DEF c

LEMMA ConvertedGroup ==
    ASSUME NEW f, IsFilter(f), NEW s, ~IsError(ConvertGroupFilter(f, s))
    PROVE  /\ IsFor(ConvertGroupFilter(f, s), GroupOp)
           /\ Len(ConvertGroupFilter(f, s)) = Len(f) /\ DOMAIN ConvertGroupFilter(f, s) = 1 .. Len(f)
           /\ \A k \in 1 .. Len(f) : ConvertGroupFilter(f, s)[k] = GroupNode(f[k], s)
<1> DEFINE c == ConvertGroupFilter(f, s)
<1>1. c = [k \in DOMAIN f |-> c[k]] /\ \A k \in DOMAIN f : c[k] = GroupNode(f[k], s)
  BY DEF ConvertGroupFilter
<1> HIDE DEF c
<1>2. \A k \in DOMAIN f : IF f[k].op \in Connective THEN c[k] = f[k] ELSE NodeOf(c[k], GroupOp)
  BY <1>1, GroupNodeShape
<1>3. IsFor(c, GroupOp) /\ Len(c) = Len(f) /\ DOMAIN c = 1 .. Len(f)
  BY <1>1, <1>2, ConvertedFilter DEF c
<1> QED
  BY <1>1, <1>3, FilterShape DEF c

LEMMA BoolTyped == \A b : Bool(b) \in TruthValue /\ (Bool(b) = "T" <=> b)
BY DEF Bool, TruthValue

LEMMA UserAtomTyped ==
    ASSUME NEW tables, NEW u, NEW p, p.op \in UserOp
    PROVE  UserAtom(tables, u, p) \in TruthValue
BY DEF UserAtom, UserOp, Bool, TruthValue, MemberOf

LEMMA GroupAtomTyped ==
    ASSUME NEW tables, NEW g, NEW p, p.op \in GroupOp
    PROVE  GroupAtom(tables, g, p) \in TruthValue
BY DEF GroupAtom, GroupOp, Bool, TruthValue

\* Adding a leaf to a filter selects less.
LEMMA BothUser ==
    ASSUME NEW tables, NEW u, NEW c, IsFor(c, UserOp), NEW p, IsLeaf(p), p.op \in UserOp
    PROVE  /\ IsFor(Both(c, p), UserOp)
           /\ (UserCondition(tables, u, Both(c, p)) = "T") <=>
                 (UserCondition(tables, u, c) = "T" /\ UserAtom(tables, u, p) = "T")
<1> DEFINE g == Both(c, p)
           n == Len(c)
           a == [k \in Leaves(c) |-> UserAtom(tables, u, c[k])]
           b == [k \in Leaves(g) |-> UserAtom(tables, u, g[k])]
<1>1. IsFilter(c) /\ n \in Nat /\ DOMAIN c = 1 .. n
  BY FilterShape DEF IsFor
<1>2. /\ IsFilter(g) /\ DOMAIN g = 1 .. (n + 2)
      /\ \A k \in 1 .. n : g[k] = c[k]
      /\ g[n + 1] = p /\ g[n + 2] = Joint(n)
  BY <1>1, BothShape
<1> HIDE DEF g
<1>3. Leaves(g) = Leaves(c) \cup {n + 1}
  <2>1. g[n + 2].op \in Connective
    BY <1>2, JointFields DEF Connective
  <2> QED
    BY <1>1, <1>2, <2>1 DEF Leaves, IsLeaf
<1>4. /\ \A k \in Leaves(c) : a[k] = UserAtom(tables, u, c[k]) /\ b[k] = a[k]
      /\ b[n + 1] = UserAtom(tables, u, p)
  <2>1. \A k \in Leaves(c) : g[k] = c[k]
    BY <1>1, <1>2 DEF Leaves
  <2> QED
    BY <1>2, <1>3, <2>1
<1> HIDE DEF a, b
<1>5. (\A k \in Leaves(c) : a[k] \in TruthValue) /\ b[n + 1] \in TruthValue
  BY <1>4, UserAtomTyped DEF IsFor
<1>6. Value(g, b) = "T" <=> Value(c, a) = "T" /\ b[n + 1] = "T"
  BY <1>1, <1>4, <1>5, BothValue DEF g
<1>7. IsFor(g, UserOp)
  <2>1. \A k \in Leaves(c) : g[k] = c[k]
    BY <1>1, <1>2 DEF Leaves
  <2> QED
    BY <1>2, <1>3, <2>1 DEF IsFor
<1>8. UserCondition(tables, u, g) = Value(g, b) /\ UserCondition(tables, u, c) = Value(c, a)
  BY DEF UserCondition, a, b
<1> QED
  BY <1>4, <1>6, <1>7, <1>8 DEF g

LEMMA BothGroup ==
    ASSUME NEW tables, NEW e, NEW c, IsFor(c, GroupOp), NEW p, IsLeaf(p), p.op \in GroupOp
    PROVE  /\ IsFor(Both(c, p), GroupOp)
           /\ (GroupCondition(tables, e, Both(c, p)) = "T") <=>
                 (GroupCondition(tables, e, c) = "T" /\ GroupAtom(tables, e, p) = "T")
<1> DEFINE g == Both(c, p)
           n == Len(c)
           a == [k \in Leaves(c) |-> GroupAtom(tables, e, c[k])]
           b == [k \in Leaves(g) |-> GroupAtom(tables, e, g[k])]
<1>1. IsFilter(c) /\ n \in Nat /\ DOMAIN c = 1 .. n
  BY FilterShape DEF IsFor
<1>2. /\ IsFilter(g) /\ DOMAIN g = 1 .. (n + 2)
      /\ \A k \in 1 .. n : g[k] = c[k]
      /\ g[n + 1] = p /\ g[n + 2] = Joint(n)
  BY <1>1, BothShape
<1> HIDE DEF g
<1>3. Leaves(g) = Leaves(c) \cup {n + 1}
  <2>1. g[n + 2].op \in Connective
    BY <1>2, JointFields DEF Connective
  <2> QED
    BY <1>1, <1>2, <2>1 DEF Leaves, IsLeaf
<1>4. /\ \A k \in Leaves(c) : a[k] = GroupAtom(tables, e, c[k]) /\ b[k] = a[k]
      /\ b[n + 1] = GroupAtom(tables, e, p)
  <2>1. \A k \in Leaves(c) : g[k] = c[k]
    BY <1>1, <1>2 DEF Leaves
  <2> QED
    BY <1>2, <1>3, <2>1
<1> HIDE DEF a, b
<1>5. (\A k \in Leaves(c) : a[k] \in TruthValue) /\ b[n + 1] \in TruthValue
  BY <1>4, GroupAtomTyped DEF IsFor
<1>6. Value(g, b) = "T" <=> Value(c, a) = "T" /\ b[n + 1] = "T"
  BY <1>1, <1>4, <1>5, BothValue DEF g
<1>7. IsFor(g, GroupOp)
  <2>1. \A k \in Leaves(c) : g[k] = c[k]
    BY <1>1, <1>2 DEF Leaves
  <2> QED
    BY <1>2, <1>3, <2>1 DEF IsFor
<1>8. GroupCondition(tables, e, g) = Value(g, b) /\ GroupCondition(tables, e, c) = Value(c, a)
  BY DEF GroupCondition, a, b
<1> QED
  BY <1>4, <1>6, <1>7, <1>8 DEF g

-----------------------------------------------------------------------------
(* The inductive invariant.                                                 *)

AttributeValue == {<<>>} \cup {<<t>> : t \in AttributeText} \cup (AttributeText \X AttributeText)

Tables ==
    [users : SUBSET UserId, mail : [UserId -> Mail \cup {NoText}], name : [UserId -> Name \cup {NoText}],
     group : [GroupId -> GroupName \cup {NoText}], members : SUBSET (UserId \X GroupId),
     value : [UserId \cup GroupId -> [Attribute -> AttributeValue]],
     schema : [Attribute -> {"absent", "hidden", "visible"}]]

TablesTyped == db \in Tables

MailKnown == \A u \in db.users : db.mail[u] # NoText

\* The unique index on the names in lower case.
NamesUnique ==
    \A g, h \in GroupId : g # h /\ db.group[g] # NoText => Lower(db.group[g]) # Lower(db.group[h])

\* Values belong to attributes of the schema, of the right kind of entry.
ValuesKnown ==
    \A e \in UserId \cup GroupId, a \in Attribute :
        db.value[e][a] # <<>> =>
            /\ db.schema[a] # "absent"
            /\ IF e \in UserId THEN a \in UserAttribute ELSE a \in GroupAttribute

\* A search that has listed the users has kept to the filter of the caller.
SearchState ==
    /\ request.pc = "users" =>
          request \in [pc : {"users"}, by : Caller, base : {request.base}, scope : {request.scope},
                       filter : LdapFilter, fields : {request.fields}, schema : {request.schema},
                       users : {NoEntries}]
    /\ request.pc = "groups" =>
          /\ request.by \in Caller /\ request.filter \in LdapFilter
          /\ \A e \in request.users.entries :
                e.id \in UserId /\ (request.by.permission = "Regular" => e.id = request.by.user)

\* The schema that a reader has read covers the attributes there are, but for
\* those added since.
QueryState ==
    request.pc = "query" =>
        /\ request \in [pc : {"query"}, by : Caller, of : {"users", "groups"},
                        filter : {request.filter}, single : BOOLEAN, schema : {request.schema},
                        added : SUBSET Attribute]
        /\ request.by.permission # "Regular" /\ request.added = {} =>
              \A a \in Attribute : db.schema[a] # "absent" =>
                  /\ a \in UserAttribute => a \in request.schema.user
                  /\ a \in GroupAttribute => a \in request.schema.group

RequestKind ==
    /\ request.pc \in {"idle", "users", "groups", "found", "query", "answered"}
    /\ request.pc = "idle" => request = Idle

IInv ==
    /\ TablesTyped /\ MailKnown /\ NamesUnique /\ ValuesKnown
    /\ RequestKind /\ SearchState /\ QueryState
    /\ RegularSeesOwn /\ QueryFailsOnlyWhenRaced

TablesOK == TablesTyped /\ MailKnown /\ NamesUnique /\ ValuesKnown

LEMMA LowerFacts ==
    /\ \A t : Lower(Lower(t)) = Lower(t)
    /\ \A t : Lower(t) = NoText <=> t = NoText
    /\ \A t \in Canonical \cup Marks \cup {"people", "groups", "groupofnames"} : Lower(t) = t
    /\ \A t : t \notin Marks => Lower(t) \notin Marks
BY TextAssumption DEF Lower, Marks, NoText

LEMMA NamedTables ==
    ASSUME NEW u \in UserId, NEW m \in Mail, NEW n \in Name, TablesOK,
           CreateUser(u, m, n) \/ UpdateUser(u, m, n)
    PROVE  TablesOK'
<1>1. /\ db'.users = db.users \cup {u} /\ db'.mail = [db.mail EXCEPT ![u] = m]
      /\ db'.name = [db.name EXCEPT ![u] = ToValue(n)] /\ db'.group = db.group
      /\ db'.members = db.members /\ db'.value = db.value /\ db'.schema = db.schema
  <2>1. CASE CreateUser(u, m, n)
    BY <2>1 DEF CreateUser, TablesOK, TablesTyped, Tables
  <2>2. CASE UpdateUser(u, m, n)
    <3>1. db.users \cup {u} = db.users
      BY <2>2 DEF UpdateUser
    <3> QED
      BY <2>2, <3>1 DEF UpdateUser, TablesOK, TablesTyped, Tables
  <2> QED
    BY <2>1, <2>2
<1>2. TablesTyped'
  <2>1. ToValue(n) \in Name \cup {NoText}
    BY DEF ToValue
  <2>2. CASE CreateUser(u, m, n)
    BY <2>1, <2>2 DEF CreateUser, TablesOK, TablesTyped, Tables
  <2>3. CASE UpdateUser(u, m, n)
    BY <2>1, <2>3 DEF UpdateUser, TablesOK, TablesTyped, Tables
  <2> QED
    BY <2>2, <2>3
<1>3. MailKnown'
  BY <1>1, SearchAssumption DEF MailKnown, TablesOK, TablesTyped, Tables, Marks
<1>4. NamesUnique' /\ ValuesKnown'
  BY <1>1 DEF NamesUnique, ValuesKnown, TablesOK
<1> QED
  BY <1>2, <1>3, <1>4 DEF TablesOK

LEMMA DeleteUserTables ==
    ASSUME NEW u \in UserId, TablesOK, DeleteUser(u)
    PROVE  TablesOK'
<1> DEFINE none == [a \in Attribute |-> <<>>]
<1>1. /\ db'.users = db.users \ {u} /\ db'.mail = [db.mail EXCEPT ![u] = NoText]
      /\ db'.name = [db.name EXCEPT ![u] = NoText] /\ db'.group = db.group
      /\ db'.members = MembersWithout(u)
      /\ db'.value = [db.value EXCEPT ![u] = none] /\ db'.schema = db.schema
  BY DEF DeleteUser, TablesOK, TablesTyped, Tables
<1>2. TablesTyped'
  <2>1. none \in [Attribute -> AttributeValue]
    BY DEF AttributeValue
  <2>2. MembersWithout(u) \in SUBSET (UserId \X GroupId)
    BY DEF MembersWithout, TablesOK, TablesTyped, Tables
  <2> HIDE DEF none
  <2> QED
    BY <2>1, <2>2 DEF DeleteUser, TablesOK, TablesTyped, Tables, none
<1>3. MailKnown'
  BY <1>1 DEF MailKnown, TablesOK, TablesTyped, Tables
<1>4. NamesUnique'
  BY <1>1 DEF NamesUnique, TablesOK
<1>5. ValuesKnown'
  BY <1>1 DEF ValuesKnown, TablesOK, TablesTyped, Tables
<1> QED
  BY <1>2, <1>3, <1>4, <1>5 DEF TablesOK

LEMMA NameGroupTables ==
    ASSUME NEW g \in GroupId, NEW n \in GroupName, TablesOK, NameGroup(g, n)
    PROVE  TablesOK'
<1>1. /\ db'.users = db.users /\ db'.mail = db.mail /\ db'.name = db.name
      /\ db'.group = [db.group EXCEPT ![g] = n] /\ db'.members = db.members
      /\ db'.value = db.value /\ db'.schema = db.schema
  BY DEF NameGroup, TablesOK, TablesTyped, Tables
<1>2. TablesTyped'
  BY DEF NameGroup, TablesOK, TablesTyped, Tables
<1>3. MailKnown' /\ ValuesKnown'
  BY <1>1 DEF MailKnown, ValuesKnown, TablesOK
<1>4. NamesUnique'
  BY <1>1 DEF NamesUnique, TablesOK, TablesTyped, Tables, NameGroup, NameFree
<1> QED
  BY <1>2, <1>3, <1>4 DEF TablesOK

LEMMA DeleteGroupTables ==
    ASSUME NEW g \in GroupId, TablesOK, DeleteGroup(g)
    PROVE  TablesOK'
<1> DEFINE none == [a \in Attribute |-> <<>>]
           left == {m \in db.members : m[2] # g}
<1>1. /\ db'.users = db.users /\ db'.mail = db.mail /\ db'.name = db.name
      /\ db'.group = [db.group EXCEPT ![g] = NoText] /\ db'.members = left
      /\ db'.value = [db.value EXCEPT ![g] = none] /\ db'.schema = db.schema
  BY DEF DeleteGroup, TablesOK, TablesTyped, Tables
<1>2. TablesTyped'
  <2>1. none \in [Attribute -> AttributeValue]
    BY DEF AttributeValue
  <2>2. left \in SUBSET (UserId \X GroupId)
    BY DEF TablesOK, TablesTyped, Tables
  <2> HIDE DEF none, left
  <2> QED
    BY <2>1, <2>2 DEF DeleteGroup, TablesOK, TablesTyped, Tables, none, left
<1>3. MailKnown'
  BY <1>1 DEF MailKnown, TablesOK
<1>4. NamesUnique'
  BY <1>1, LowerFacts DEF NamesUnique, TablesOK, TablesTyped, Tables
<1>5. ValuesKnown'
  BY <1>1 DEF ValuesKnown, TablesOK, TablesTyped, Tables
<1> QED
  BY <1>2, <1>3, <1>4, <1>5 DEF TablesOK

LEMMA MemberTables ==
    ASSUME NEW u \in UserId, NEW g \in GroupId, TablesOK, AddMember(u, g) \/ RemoveMember(u, g)
    PROVE  TablesOK'
<1>1. /\ db'.users = db.users /\ db'.mail = db.mail /\ db'.name = db.name
      /\ db'.group = db.group /\ db'.value = db.value /\ db'.schema = db.schema
  BY DEF AddMember, RemoveMember, TablesOK, TablesTyped, Tables
<1>2. TablesTyped'
  <2>1. CASE AddMember(u, g)
    <3>1. db.members \cup {<<u, g>>} \in SUBSET (UserId \X GroupId)
      BY DEF TablesOK, TablesTyped, Tables
    <3> QED
      BY <2>1, <3>1 DEF AddMember, TablesOK, TablesTyped, Tables
  <2>2. CASE RemoveMember(u, g)
    <3>1. db.members \ {<<u, g>>} \in SUBSET (UserId \X GroupId)
      BY DEF TablesOK, TablesTyped, Tables
    <3> QED
      BY <2>2, <3>1 DEF RemoveMember, TablesOK, TablesTyped, Tables
  <2> QED
    BY <2>1, <2>2
<1>3. MailKnown' /\ NamesUnique' /\ ValuesKnown'
  BY <1>1 DEF MailKnown, NamesUnique, ValuesKnown, TablesOK
<1> QED
  BY <1>2, <1>3 DEF TablesOK

LEMMA SetValueTables ==
    ASSUME NEW e \in UserId \cup GroupId, NEW a \in Attribute, NEW v \in ValuesOf(a), TablesOK,
           SetValue(e, a, v)
    PROVE  TablesOK'
<1>1. /\ db'.users = db.users /\ db'.mail = db.mail /\ db'.name = db.name
      /\ db'.group = db.group /\ db'.members = db.members
      /\ db'.value = [db.value EXCEPT ![e][a] = v] /\ db'.schema = db.schema
  BY DEF SetValue, TablesOK, TablesTyped, Tables
<1>2. TablesTyped'
  <2>1. v \in AttributeValue
    BY DEF ValuesOf, AttributeValue
  <2>2. db'.value \in [UserId \cup GroupId -> [Attribute -> AttributeValue]]
    BY <1>1, <2>1 DEF TablesOK, TablesTyped, Tables
  <2> QED
    BY <2>2 DEF SetValue, TablesOK, TablesTyped, Tables
<1>3. MailKnown' /\ NamesUnique'
  BY <1>1 DEF MailKnown, NamesUnique, TablesOK
<1>4. ValuesKnown'
  BY <1>1 DEF ValuesKnown, TablesOK, TablesTyped, Tables, SetValue
<1> QED
  BY <1>2, <1>3, <1>4 DEF TablesOK

LEMMA AddAttributeTables ==
    ASSUME NEW a \in Attribute, NEW v \in {"hidden", "visible"}, TablesOK, AddAttribute(a, v)
    PROVE  TablesOK'
<1>1. /\ db'.users = db.users /\ db'.mail = db.mail /\ db'.name = db.name
      /\ db'.group = db.group /\ db'.members = db.members
      /\ db'.value = db.value /\ db'.schema = [db.schema EXCEPT ![a] = v]
  BY DEF AddAttribute, TablesOK, TablesTyped, Tables
<1>2. TablesTyped'
  BY DEF AddAttribute, TablesOK, TablesTyped, Tables
<1>3. MailKnown' /\ NamesUnique'
  BY <1>1 DEF MailKnown, NamesUnique, TablesOK
<1>4. ValuesKnown'
  BY <1>1 DEF ValuesKnown, TablesOK, TablesTyped, Tables
<1> QED
  BY <1>2, <1>3, <1>4 DEF TablesOK

LEMMA DeleteAttributeTables ==
    ASSUME NEW a \in Attribute, TablesOK, DeleteAttribute(a)
    PROVE  TablesOK'
<1> DEFINE left == [e \in UserId \cup GroupId |-> [db.value[e] EXCEPT ![a] = <<>>]]
<1>0. DOMAIN db.value = UserId \cup GroupId
  BY DEF TablesOK, TablesTyped, Tables
<1>1. /\ db'.users = db.users /\ db'.mail = db.mail /\ db'.name = db.name
      /\ db'.group = db.group /\ db'.members = db.members
      /\ db'.value = left /\ db'.schema = [db.schema EXCEPT ![a] = "absent"]
  BY <1>0 DEF DeleteAttribute, TablesOK, TablesTyped, Tables
<1>2. TablesTyped'
  <2>1. left \in [UserId \cup GroupId -> [Attribute -> AttributeValue]]
    BY DEF TablesOK, TablesTyped, Tables, AttributeValue
  <2> QED
    BY <1>0, <1>1, <2>1 DEF DeleteAttribute, TablesOK, TablesTyped, Tables
<1>3. MailKnown' /\ NamesUnique'
  BY <1>1 DEF MailKnown, NamesUnique, TablesOK
<1>4. ValuesKnown'
  BY <1>1 DEF ValuesKnown, TablesOK, TablesTyped, Tables
<1> QED
  BY <1>2, <1>3, <1>4 DEF TablesOK

LEMMA ChangeTables ==
    ASSUME TablesOK, Change
    PROVE  TablesOK'
BY NamedTables, DeleteUserTables, NameGroupTables, DeleteGroupTables,
   MemberTables, SetValueTables, AddAttributeTables, DeleteAttributeTables DEF Change

-----------------------------------------------------------------------------
(* What the filter of the caller leaves.                                    *)

LEMMA RestrictedUsers ==
    ASSUME NEW tables, NEW i, NEW c, IsFor(c, UserOp), NEW u
    PROVE  u \in UsersSelected(tables, Restricted(i, c, "UserId")) <=>
              u \in UsersSelected(tables, c) /\ (i.permission = "Regular" => u = i.user)
<1> DEFINE p == Leaf("UserId", "", i.user)
<1>1. CASE i.permission = "Regular"
  <2>1. p.op = "UserId" /\ p.v = i.user /\ p.of = {}
    BY DEF Leaf
  <2> HIDE DEF p
  <2>2. IsLeaf(p) /\ p.op \in UserOp
    BY <2>1 DEF IsLeaf, UserOp, Connective
  <2>3. UserAtom(tables, u, p) = Bool(u = i.user)
    BY <2>1 DEF UserAtom
  <2>4. UserAtom(tables, u, p) = "T" <=> u = i.user
    BY <2>3 DEF Bool
  <2>5. (UserCondition(tables, u, Both(c, p)) = "T") <=>
           (UserCondition(tables, u, c) = "T" /\ UserAtom(tables, u, p) = "T")
    BY <2>2, BothUser
  <2>6. Restricted(i, c, "UserId") = Both(c, p)
    BY <1>1 DEF Restricted, p
  <2> QED
    BY <1>1, <2>4, <2>5, <2>6 DEF UsersSelected
<1>2. CASE i.permission # "Regular"
  BY <1>2 DEF Restricted
<1> QED
  BY <1>1, <1>2

LEMMA RestrictedGroups ==
    ASSUME NEW tables, NEW i, NEW c, IsFor(c, GroupOp), NEW g
    PROVE  g \in GroupsSelected(tables, Restricted(i, c, "Member")) <=>
              g \in GroupsSelected(tables, c)
              /\ (i.permission = "Regular" => <<i.user, g>> \in tables.members)
<1> DEFINE p == Leaf("Member", "", i.user)
<1>1. CASE i.permission = "Regular"
  <2>1. p.op = "Member" /\ p.v = i.user /\ p.of = {}
    BY DEF Leaf
  <2> HIDE DEF p
  <2>2. IsLeaf(p) /\ p.op \in GroupOp
    BY <2>1 DEF IsLeaf, GroupOp, Connective
  <2>3. GroupAtom(tables, g, p) = Bool(<<i.user, g>> \in tables.members)
    BY <2>1 DEF GroupAtom
  <2>4. GroupAtom(tables, g, p) = "T" <=> <<i.user, g>> \in tables.members
    BY <2>3 DEF Bool
  <2>5. (GroupCondition(tables, g, Both(c, p)) = "T") <=>
           (GroupCondition(tables, g, c) = "T" /\ GroupAtom(tables, g, p) = "T")
    BY <2>2, BothGroup
  <2>6. Restricted(i, c, "Member") = Both(c, p)
    BY <1>1 DEF Restricted, p
  <2> QED
    BY <1>1, <2>4, <2>5, <2>6 DEF GroupsSelected
<1>2. CASE i.permission # "Regular"
  BY <1>2 DEF Restricted
<1> QED
  BY <1>1, <1>2

LEMMA ScopedFilter ==
    ASSUME NEW f, IsFilter(f), NEW d, NEW scope
    PROVE  IsFilter(Scoped(d, f, scope))
<1> DEFINE p == Leaf("Equality", d[1][1], Text(d[1][2]))
<1>1. IsLeaf(p)
  BY DEF IsLeaf, Leaf, Connective
<1> HIDE DEF p
<1>2. IsFilter(Both(f, p))
  BY <1>1, BothShape
<1> QED
  BY <1>2 DEF Scoped, p

\* The users a search lists are those its caller may see.
LEMMA UserPartOwn ==
    ASSUME NEW tables, tables.users \subseteq UserId, NEW i, NEW d, NEW scope, NEW f, IsFilter(f),
           NEW s, NEW fields, NEW fails, NEW e \in UserPart(tables, fails, i, d, scope, f, s, fields).entries
    PROVE  e.id \in UserId /\ (i.permission = "Regular" => e.id = i.user)
<1> DEFINE h == Scoped(ReadDn(d), f, scope)
           c == ConvertUserFilter(h, s)
<1>1. ListsUsers(scope) /\ e \in UserList(tables, i, h, s, fields).entries
  BY DEF UserPart, NoEntries, Refused
<1>2. IsFilter(h)
  BY ScopedFilter
<1> HIDE DEF h
<1>3. ~IsError(c)
  BY <1>1 DEF UserList, Refused
<1>4. IsFor(c, UserOp)
  BY <1>2, <1>3, ConvertedUser
<1>5. PICK u \in UsersSelected(tables, Restricted(i, c, "UserId")) : e.id = u
  BY <1>1, <1>3 DEF UserList
<1> HIDE DEF c
<1>6. u \in UsersSelected(tables, c) /\ (i.permission = "Regular" => u = i.user)
  BY <1>4, <1>5, RestrictedUsers
<1> QED
  BY <1>5, <1>6 DEF UsersSelected

\* Of the groups it lists a regular caller is a member, and sees no other one.
LEMMA GroupPartOwn ==
    ASSUME NEW tables, tables.members \subseteq UserId \X GroupId,
           NEW i \in Caller, NEW d, NEW scope, NEW f, IsFilter(f),
           NEW s, NEW fields, NEW fails, NEW e \in GroupPart(tables, fails, i, d, scope, f, s, fields).entries
    PROVE  /\ e.id \in GroupId
           /\ i.permission = "Regular" /\ "member" \in DOMAIN e.shown =>
                 e.shown["member"] = {Dn(UserDn(i.user))}
<1> DEFINE h == Scoped(ReadDn(d), f, scope)
           c == ConvertGroupFilter(h, s)
           own == UserFilter(i)
<1>1. ListsGroups(scope) /\ e \in GroupList(tables, i, h, s, fields).entries
  BY DEF GroupPart, NoEntries, Refused
<1>2. IsFilter(h)
  BY ScopedFilter
<1> HIDE DEF h
<1>3. ~IsError(c)
  BY <1>1 DEF GroupList, Refused
<1>4. IsFor(c, GroupOp)
  BY <1>2, <1>3, ConvertedGroup
<1>5. PICK g \in GroupsSelected(tables, Restricted(i, c, "Member")) :
         /\ e.id = g
         /\ e.shown = [a \in fields |-> GroupValues(tables, g, a, s, own)]
  BY <1>1, <1>3 DEF GroupList
<1> HIDE DEF c, own
<1>6. /\ g \in GroupsSelected(tables, c)
      /\ i.permission = "Regular" => <<i.user, g>> \in tables.members
  BY <1>4, <1>5, RestrictedGroups
<1>7. ASSUME i.permission = "Regular", "member" \in DOMAIN e.shown
      PROVE  e.shown["member"] = {Dn(UserDn(i.user))}
  <2>1. e.shown["member"] = GroupValues(tables, g, "member", s, own)
    BY <1>5, <1>7
  <2>2. MapGroupField("member", s) = "Member"
    BY DEF MapGroupField, GroupFieldType
  <2>3. MembersOf(tables, g) \cap own = {i.user}
    BY <1>6, <1>7 DEF MembersOf, own, UserFilter, Caller
  <2>4. Dn(UserDn(i.user)).text = "dn" /\ Text("").text = ""
    BY DEF Dn, Text
  <2>5. GroupAll(tables, g, "member", s, own) =
           {Dn(UserDn(u)) : u \in MembersOf(tables, g) \cap own}
    BY <2>2 DEF GroupAll
  <2>6. GroupAll(tables, g, "member", s, own) = {Dn(UserDn(i.user))}
    BY <2>3, <2>5
  <2>7. {Dn(UserDn(i.user))} # {Text("")}
    BY <2>4
  <2> QED
    BY <2>1, <2>6, <2>7 DEF GroupValues, Shown
<1> QED
  BY <1>5, <1>6, <1>7 DEF GroupsSelected

-----------------------------------------------------------------------------
(* Every step keeps the invariant.                                          *)

RequestOK == RequestKind /\ SearchState /\ QueryState /\ RegularSeesOwn /\ QueryFailsOnlyWhenRaced

LEMMA InitIInv == Init => IInv
<1> SUFFICES ASSUME Init PROVE IInv
  OBVIOUS
<1>1. /\ db.users = {} /\ db.group = [g \in GroupId |-> NoText]
      /\ db.value = [e \in UserId \cup GroupId |-> [a \in Attribute |-> <<>>]]
      /\ request.pc = "idle" /\ request = Idle
  BY DEF Init, Idle
<1>2. TablesTyped
  <2>1. [e \in UserId \cup GroupId |-> [a \in Attribute |-> <<>>]]
           \in [UserId \cup GroupId -> [Attribute -> AttributeValue]]
    BY DEF AttributeValue
  <2> QED
    BY <2>1 DEF Init, TablesTyped, Tables
<1>3. MailKnown /\ NamesUnique /\ ValuesKnown
  BY <1>1 DEF MailKnown, NamesUnique, ValuesKnown
<1> QED
  BY <1>1, <1>2, <1>3
     DEF IInv, RequestKind, SearchState, QueryState, RegularSeesOwn, QueryFailsOnlyWhenRaced

\* A step that changes tables only.
LEMMA ChangeRequest ==
    ASSUME IInv, Change
    PROVE  RequestOK'
<1>1. ASSUME request' = request, \A a \in Attribute : db.schema[a] = "absent" => db'.schema[a] = "absent"
      PROVE  RequestOK'
  BY <1>1 DEF IInv, RequestOK, RequestKind, SearchState, QueryState, RegularSeesOwn,
              QueryFailsOnlyWhenRaced
<1>2. ASSUME request' = request, db'.schema = db.schema
      PROVE  RequestOK'
  BY <1>1, <1>2
<1>3. ASSUME NEW u \in UserId, NEW m \in Mail, NEW n \in Name,
             CreateUser(u, m, n) \/ UpdateUser(u, m, n)
      PROVE  RequestOK'
  BY <1>2, <1>3 DEF CreateUser, UpdateUser, IInv, TablesTyped, Tables
<1>5. ASSUME NEW u \in UserId, DeleteUser(u)
      PROVE  RequestOK'
  BY <1>2, <1>5 DEF DeleteUser, IInv, TablesTyped, Tables
<1>6. ASSUME NEW g \in GroupId, NEW n \in GroupName, NameGroup(g, n)
      PROVE  RequestOK'
  BY <1>2, <1>6 DEF NameGroup, IInv, TablesTyped, Tables
<1>7. ASSUME NEW g \in GroupId, DeleteGroup(g)
      PROVE  RequestOK'
  BY <1>2, <1>7 DEF DeleteGroup, IInv, TablesTyped, Tables
<1>8. ASSUME NEW u \in UserId, NEW g \in GroupId, AddMember(u, g) \/ RemoveMember(u, g)
      PROVE  RequestOK'
  BY <1>2, <1>8 DEF AddMember, RemoveMember, IInv, TablesTyped, Tables
<1>9. ASSUME NEW e \in UserId \cup GroupId, NEW a \in Attribute, NEW v \in ValuesOf(a),
             SetValue(e, a, v)
      PROVE  RequestOK'
  BY <1>2, <1>9 DEF SetValue, IInv, TablesTyped, Tables
<1>10. ASSUME NEW a \in Attribute, NEW v \in {"hidden", "visible"}, AddAttribute(a, v)
       PROVE  RequestOK'
  <2>1. CASE request.pc = "query"
    <3>1. /\ request'.pc = "query" /\ request'.added # {}
          /\ request' \in [pc : {"query"}, by : Caller, of : {"users", "groups"},
                        filter : {request'.filter}, single : BOOLEAN, schema : {request'.schema},
                        added : SUBSET Attribute]
      BY <1>10, <2>1 DEF AddAttribute, IInv, QueryState
    <3> QED
      BY <3>1 DEF RequestOK, RequestKind, SearchState, QueryState, RegularSeesOwn,
                  QueryFailsOnlyWhenRaced
  <2>2. CASE request.pc # "query"
    BY <1>10, <2>2 DEF AddAttribute, IInv, RequestOK, RequestKind, SearchState, QueryState,
                       RegularSeesOwn, QueryFailsOnlyWhenRaced
  <2> QED
    BY <2>1, <2>2
<1>11. ASSUME NEW a \in Attribute, DeleteAttribute(a)
       PROVE  RequestOK'
  <2>1. db'.schema = [db.schema EXCEPT ![a] = "absent"] /\ request' = request
    BY <1>11 DEF DeleteAttribute, IInv, TablesTyped, Tables
  <2>2. \A b \in Attribute : db.schema[b] = "absent" => db'.schema[b] = "absent"
    BY <2>1 DEF IInv, TablesTyped, Tables
  <2> QED
    BY <1>1, <2>1, <2>2
<1> QED
  BY <1>3, <1>5, <1>6, <1>7, <1>8, <1>9, <1>10, <1>11 DEF Change

\* A reader is told of every attribute there is.
LEMMA SchemaComplete ==
    ASSUME NEW d, NEW i, i.permission # "Regular", NEW a,
           d.schema[a] \in {"absent", "hidden", "visible"}, d.schema[a] # "absent"
    PROVE  /\ a \in UserAttribute => a \in GetSchema(d, i).user
           /\ a \in GroupAttribute => a \in GetSchema(d, i).group
BY DEF GetSchema

\* An answer to a query.
LEMMA AnsweredRequest ==
    ASSUME NEW i, NEW added, NEW refused, NEW ok, Answered(i, added, refused, ok),
           i.permission # "Regular" /\ ~ok => refused \/ added # {}
    PROVE  RequestOK'
<1>1. /\ request'.pc = "answered" /\ request'.by = i /\ request'.added = added
      /\ request'.refused = refused /\ request'.ok = ok
  BY DEF Answered
<1> QED
  BY <1>1 DEF RequestOK, RequestKind, SearchState, QueryState, RegularSeesOwn,
              QueryFailsOnlyWhenRaced

LEMMA BeginQueryRequest ==
    ASSUME IInv, NEW i \in Caller, NEW of \in {"users", "groups"}, NEW c, NEW single \in BOOLEAN,
           BeginQuery(i, of, c, single)
    PROVE  RequestOK' /\ db' = db
<1>1. db' = db
  BY DEF BeginQuery
<1>2. CASE Answered(i, {}, TRUE, FALSE)
  BY <1>1, <1>2, AnsweredRequest
<1>3. CASE request' = [pc |-> "query", by |-> i, of |-> of, filter |-> c, single |-> single,
                       schema |-> GetSchema(db, i), added |-> {}]
  <2>1. /\ request'.pc = "query" /\ request'.by = i /\ request'.schema = GetSchema(db, i)
        /\ request' \in [pc : {"query"}, by : Caller, of : {"users", "groups"},
                         filter : {request'.filter}, single : BOOLEAN, schema : {request'.schema},
                         added : SUBSET Attribute]
    BY <1>3
  <2>2. i.permission # "Regular" =>
           \A a \in Attribute : db.schema[a] # "absent" =>
              /\ a \in UserAttribute => a \in GetSchema(db, i).user
              /\ a \in GroupAttribute => a \in GetSchema(db, i).group
    BY SchemaComplete DEF IInv, TablesTyped, Tables
  <2>3. QueryState'
    BY <1>1, <2>1, <2>2 DEF QueryState
  <2> QED
    BY <1>1, <2>1, <2>3 DEF RequestOK, RequestKind, SearchState, RegularSeesOwn,
                            QueryFailsOnlyWhenRaced
<1> QED
  BY <1>2, <1>3 DEF BeginQuery

LEMMA SearchUsersRequest ==
    ASSUME IInv, NEW fails, SearchUsers(fails)
    PROVE  RequestOK'
<1> DEFINE part == UserPart(db, fails, request.by, request.base, request.scope,
                            request.filter, request.schema, request.fields)
<1>1. request.by \in Caller /\ request.filter \in LdapFilter
  BY DEF IInv, SearchState, SearchUsers
<1>2. /\ request'.pc = "groups" /\ request'.by = request.by /\ request'.filter = request.filter
      /\ request'.users = part
  BY DEF IInv, SearchState, SearchUsers
<1>3. \A e \in part.entries :
         e.id \in UserId /\ (request.by.permission = "Regular" => e.id = request.by.user)
  <2>1. db.users \subseteq UserId /\ IsFilter(request.filter)
    BY <1>1, SearchAssumption DEF IInv, TablesTyped, Tables
  <2> QED
    BY <2>1, UserPartOwn
<1> HIDE DEF part
<1> QED
  BY <1>1, <1>2, <1>3
     DEF RequestOK, RequestKind, SearchState, QueryState, RegularSeesOwn, QueryFailsOnlyWhenRaced

LEMMA SearchGroupsRequest ==
    ASSUME IInv, NEW fails, SearchGroups(fails)
    PROVE  RequestOK'
<1> DEFINE gs == GroupPart(db, fails, request.by, request.base, request.scope,
                           request.filter, request.schema, request.fields)
           us == request.users
<1>1. /\ request.by \in Caller /\ request.filter \in LdapFilter
      /\ \A e \in us.entries :
            e.id \in UserId /\ (request.by.permission = "Regular" => e.id = request.by.user)
  BY DEF IInv, SearchState, SearchGroups
<1>2. /\ request'.pc = "found" /\ request'.by = request.by
      /\ request'.answer = Answer(request.scope, us, gs)
  BY DEF SearchGroups
<1>3. \A e \in gs.entries :
         /\ e.id \in GroupId
         /\ request.by.permission = "Regular" /\ "member" \in DOMAIN e.shown =>
               e.shown["member"] = {Dn(UserDn(request.by.user))}
  <2>1. db.members \subseteq UserId \X GroupId /\ IsFilter(request.filter)
    BY <1>1, SearchAssumption DEF IInv, TablesTyped, Tables
  <2> QED
    BY <1>1, <2>1, GroupPartOwn
<1> HIDE DEF gs, us
<1>4. request'.answer.entries \subseteq us.entries \cup gs.entries
  BY <1>2 DEF Answer, Refused
<1>5. RegularSeesOwn'
  <2> SUFFICES ASSUME request'.by.permission = "Regular", NEW e \in request'.answer.entries
               PROVE  IF e.id \in UserId THEN e.id = request'.by.user
                      ELSE "member" \in DOMAIN e.shown =>
                              e.shown["member"] = {Dn(UserDn(request'.by.user))}
    BY DEF RegularSeesOwn
  <2>1. CASE e \in us.entries
    BY <1>1, <1>2, <2>1
  <2>2. CASE e \in gs.entries
    BY <1>2, <1>3, <2>2, FiltersAssumption
  <2> QED
    BY <1>4, <2>1, <2>2
<1> QED
  BY <1>2, <1>5 DEF RequestOK, RequestKind, SearchState, QueryState, QueryFailsOnlyWhenRaced

LEMMA AnswerQueryRequest ==
    ASSUME IInv, NEW fails, AnswerQuery(fails)
    PROVE  RequestOK'
<1> DEFINE es == IF request.of = "users" THEN UsersSelected(db, request.filter)
                 ELSE GroupsSelected(db, request.filter)
           refused == fails \/ (request.single /\ es = {})
           ok == IF request.of = "users" THEN FromUsers(es) ELSE FromGroups(es)
<1>1. Answered(request.by, request.added, refused, ~refused /\ ok)
  BY DEF AnswerQuery
<1>2. ASSUME request.by.permission # "Regular", request.added = {}
      PROVE  ok
  <2>1. \A a \in Attribute : db.schema[a] # "absent" =>
           /\ a \in UserAttribute => a \in request.schema.user
           /\ a \in GroupAttribute => a \in request.schema.group
    BY <1>2 DEF IInv, QueryState, AnswerQuery
  <2>2. UsersSelected(db, request.filter) \subseteq UserId
    BY DEF UsersSelected, IInv, TablesTyped, Tables
  <2>3. GroupsSelected(db, request.filter) \subseteq GroupId
    BY DEF GroupsSelected
  <2>4. FromUsers(UsersSelected(db, request.filter))
    BY <2>1, <2>2 DEF FromUsers, Represented, IInv, ValuesKnown
  <2>5. FromGroups(GroupsSelected(db, request.filter))
    BY <2>1, <2>3, FiltersAssumption DEF FromGroups, Represented, IInv, ValuesKnown
  <2> QED
    BY <2>4, <2>5
<1> HIDE DEF es, ok, refused
<1>3. request.by.permission # "Regular" /\ ~(~refused /\ ok) => refused \/ request.added # {}
  BY <1>2
<1> QED
  BY <1>1, <1>3, AnsweredRequest

LEMMA QueryRequest ==
    ASSUME IInv, Query
    PROVE  RequestOK' /\ db' = db
<1>1. ASSUME NEW i \in Caller, NEW d \in SearchBase, NEW base \in BOOLEAN, NEW f \in LdapFilter,
             NEW fields \in Requested, BeginSearch(i, d, base, f, fields)
      PROVE  RequestOK' /\ db' = db
  <2>1. db' = db
    BY <1>1 DEF BeginSearch
  <2>2. CASE request' = [pc |-> "found", by |-> i, answer |-> Refused]
    <3>1. request'.pc = "found" /\ request'.answer.entries = {}
      BY <2>2 DEF Refused
    <3> QED
      BY <2>1, <3>1 DEF RequestOK, RequestKind, SearchState, QueryState, RegularSeesOwn,
                        QueryFailsOnlyWhenRaced
  <2>3. CASE request' # [pc |-> "found", by |-> i, answer |-> Refused]
    <3>1. request'.pc = "users"
          /\ request' \in [pc : {"users"}, by : Caller, base : {request'.base},
                           scope : {request'.scope}, filter : LdapFilter,
                           fields : {request'.fields}, schema : {request'.schema},
                           users : {NoEntries}]
      BY <1>1, <2>3 DEF BeginSearch
    <3> QED
      BY <2>1, <3>1 DEF RequestOK, RequestKind, SearchState, QueryState, RegularSeesOwn,
                        QueryFailsOnlyWhenRaced
  <2> QED
    BY <2>2, <2>3
<1>2. ASSUME NEW i \in Caller, NEW u \in UserId, UserQuery(i, u)
      PROVE  RequestOK' /\ db' = db
  <2>1. BeginQuery(i, "users", <<Leaf("UserId", "", u)>>, TRUE)
    BY <1>2 DEF UserQuery
  <2> QED
    BY <2>1, BeginQueryRequest
<1>3. ASSUME NEW i \in Caller, NEW f \in RequestFilter, UsersQuery(i, f)
      PROVE  RequestOK' /\ db' = db
  <2>1. BeginQuery(i, "users", ConvertRequestFilter(f, GetSchema(db, i)), FALSE)
    BY <1>3 DEF UsersQuery
  <2> QED
    BY <2>1, BeginQueryRequest
<1>4. ASSUME NEW i \in Caller, GroupsQuery(i)
      PROVE  RequestOK' /\ db' = db
  <2>1. BeginQuery(i, "groups", <<FromBool(TRUE)>>, FALSE)
    BY <1>4 DEF GroupsQuery
  <2> QED
    BY <2>1, BeginQueryRequest
<1>g. ASSUME NEW i \in Caller, NEW g \in GroupId, GroupQuery(i, g)
      PROVE  RequestOK' /\ db' = db
  <2>1. BeginQuery(i, "groups", <<Leaf("GroupId", "", g)>>, TRUE)
    BY <1>g DEF GroupQuery
  <2> QED
    BY <2>1, BeginQueryRequest
<1>5. ASSUME NEW fails \in BOOLEAN, SearchUsers(fails) \/ SearchGroups(fails) \/ AnswerQuery(fails)
      PROVE  RequestOK' /\ db' = db
  BY <1>5, SearchUsersRequest, SearchGroupsRequest, AnswerQueryRequest
     DEF SearchUsers, SearchGroups, AnswerQuery
<1>6. ASSUME Return
      PROVE  RequestOK' /\ db' = db
  BY <1>6 DEF Return, Idle, RequestOK, RequestKind, SearchState, QueryState, RegularSeesOwn,
              QueryFailsOnlyWhenRaced
<1> QED
  BY <1>1, <1>2, <1>3, <1>4, <1>g, <1>5, <1>6 DEF Query

LEMMA NextIInv ==
    ASSUME IInv, [Next]_vars
    PROVE  IInv'
<1>0. TablesOK
  BY DEF IInv, TablesOK
<1>1. CASE Change
  BY <1>0, <1>1, ChangeTables, ChangeRequest DEF IInv, TablesOK, RequestOK
<1>2. CASE Query
  <2>1. RequestOK' /\ db' = db
    BY <1>2, QueryRequest
  <2>2. TablesOK'
    BY <1>0, <2>1 DEF TablesOK, TablesTyped, MailKnown, NamesUnique, ValuesKnown
  <2> QED
    BY <2>1, <2>2 DEF IInv, TablesOK, RequestOK
<1>3. CASE UNCHANGED vars
  BY <1>3 DEF vars, IInv, TablesTyped, MailKnown, NamesUnique, ValuesKnown, RequestKind, SearchState,
              QueryState, RegularSeesOwn, QueryFailsOnlyWhenRaced
<1> QED
  BY <1>1, <1>2, <1>3 DEF Next

\* The tables keep their types and unique names, values belong to attributes
\* of the schema, and each request remembers what its answer rests on.
THEOREM Invariance == Spec => []IInv
<1> QED
  BY InitIInv, NextIInv, PTL DEF Spec

\* A regular user who searches (UserRestrictedListerBackendHandler) sees their
\* own entry, and of the groups those they are in without the other members,
\* whatever the filter, the scope and the changes between the queries.
THEOREM RegularUsersSeeTheirOwn == Spec => []RegularSeesOwn
<1>1. IInv => RegularSeesOwn
  BY DEF IInv
<1> QED
  BY <1>1, Invariance, PTL

\* Apart from errors of the database, invalid filters and users or groups that
\* do not exist, a query fails for a reader only after an attribute was added
\* behind its back (AttributeValue::from_schema).
THEOREM QueriesFailOnlyInARace == Spec => []QueryFailsOnlyWhenRaced
<1>1. IInv => QueryFailsOnlyWhenRaced
  BY DEF IInv
<1> QED
  BY <1>1, Invariance, PTL

-----------------------------------------------------------------------------
(* Distinguished names.                                                     *)

\* The entry r = n of an organizational unit.
At(r, n, ou) == <<<<r, n>>, ou>> \o BaseDn

LEMMA SeqShape ==
    ASSUME NEW d, IsSeq(d)
    PROVE  Len(d) \in Nat /\ DOMAIN d = 1 .. Len(d) /\ d = [k \in 1 .. Len(d) |-> d[k]]
<1>1. d \in Seq(Range(d))
  BY DEF IsSeq
<1> QED
  BY <1>1, LenProperties

LEMMA SeqSame ==
    ASSUME NEW d, IsSeq(d), NEW e, IsSeq(e), Len(d) = Len(e), \A k \in 1 .. Len(d) : d[k] = e[k]
    PROVE  d = e
BY SeqShape

LEMMA AtShape ==
    ASSUME NEW r, NEW n, NEW ou
    PROVE  /\ IsSeq(At(r, n, ou)) /\ Len(At(r, n, ou)) = Len(BaseDn) + 2
           /\ At(r, n, ou)[1] = <<r, n>> /\ At(r, n, ou)[2] = ou
           /\ \A i \in 1 .. Len(BaseDn) : At(r, n, ou)[2 + i] = BaseDn[i]
<1> DEFINE x == <<r, n>>
           s == <<x, ou>>
           b == BaseDn
           S == {x, ou} \cup Range(b)
           d == At(r, n, ou)
<1>1. IsSeq(b) /\ Len(b) \in Nat
  BY DnAssumption, SeqShape
<1>2. b \in Seq(S)
  <2>1. b \in Seq(Range(b))
    BY <1>1 DEF IsSeq
  <2> HIDE DEF x, b
  <2> QED
    BY <2>1, SeqMonotonic
<1>3. s \in Seq(S) /\ Len(s) = 2 /\ s[1] = x /\ s[2] = ou
  <2> HIDE DEF x, b
  <2> QED
    OBVIOUS
<1>4. d = s \o b
  BY DEF At
<1> HIDE DEF s, S, d, x, b
<1>5. /\ s \o b \in Seq(S) /\ Len(s \o b) = Len(s) + Len(b)
      /\ \A k \in 1 .. Len(s) + Len(b) :
            (s \o b)[k] = IF k <= Len(s) THEN s[k] ELSE b[k - Len(s)]
  BY <1>2, <1>3, ConcatProperties
<1>6. IsSeq(d) /\ Len(d) = Len(b) + 2
  <2>1. d \in Seq(S) /\ Len(d) = 2 + Len(b)
    BY <1>3, <1>4, <1>5
  <2>2. IsSeq(d)
    BY <2>1, SeqFromDomain
  <2> QED
    BY <1>1, <2>1, <2>2
<1>7. d[1] = x /\ d[2] = ou
  BY <1>1, <1>3, <1>4, <1>5
<1>8. \A i \in 1 .. Len(b) : d[2 + i] = b[i]
  <2> SUFFICES ASSUME NEW i \in 1 .. Len(b) PROVE d[2 + i] = b[i]
    OBVIOUS
  <2>1. 2 + i \in 1 .. 2 + Len(b) /\ ~(2 + i <= 2) /\ (2 + i) - 2 = i
    BY <1>1
  <2> QED
    BY <1>3, <1>4, <1>5, <2>1
<1> QED
  BY <1>6, <1>7, <1>8 DEF d, x, b

LEMMA BaseLower ==
    /\ Len(BaseDn) \in Nat /\ DOMAIN BaseDn = 1 .. Len(BaseDn)
    /\ \A i \in 1 .. Len(BaseDn) : <<BaseDn[i][1], Lower(BaseDn[i][2])>> = BaseDn[i]
<1>1. IsSeq(BaseDn) /\ LowerDn(BaseDn) = BaseDn
  BY DnAssumption
<1>2. Len(BaseDn) \in Nat /\ DOMAIN BaseDn = 1 .. Len(BaseDn)
  BY <1>1, SeqShape
<1> QED
  BY <1>1, <1>2 DEF LowerDn

LEMMA LowerShape ==
    ASSUME NEW d, IsSeq(d)
    PROVE  /\ IsSeq(LowerDn(d)) /\ Len(LowerDn(d)) = Len(d)
           /\ \A i \in 1 .. Len(d) : LowerDn(d)[i] = <<d[i][1], Lower(d[i][2])>>
<1>1. Len(d) \in Nat /\ DOMAIN d = 1 .. Len(d)
  BY SeqShape
<1>2. /\ LowerDn(d) = [i \in 1 .. Len(d) |-> LowerDn(d)[i]]
      /\ \A i \in 1 .. Len(d) : LowerDn(d)[i] = <<d[i][1], Lower(d[i][2])>>
  BY <1>1 DEF LowerDn
<1> QED
  BY <1>1, <1>2, FunctionIsSeq

LEMMA Units ==
    /\ People[1] = "ou" /\ People[2] = "people" /\ Groups[1] = "ou" /\ Groups[2] = "groups"
    /\ <<People[1], Lower(People[2])>> = People /\ <<Groups[1], Lower(Groups[2])>> = Groups
    /\ People # Groups
<1>1. Lower("people") = "people" /\ Lower("groups") = "groups"
  BY LowerFacts
<1> QED
  BY <1>1 DEF People, Groups

LEMMA LowerAt ==
    ASSUME NEW r, NEW n, NEW ou \in {People, Groups}
    PROVE  LowerDn(At(r, n, ou)) = At(r, Lower(n), ou)
<1> DEFINE d == At(r, n, ou)
           e == At(r, Lower(n), ou)
           l == LowerDn(d)
           N == Len(BaseDn)
<1>1. /\ IsSeq(d) /\ Len(d) = N + 2 /\ d[1] = <<r, n>> /\ d[2] = ou
      /\ \A i \in 1 .. N : d[2 + i] = BaseDn[i]
  BY AtShape
<1>2. /\ IsSeq(e) /\ Len(e) = N + 2 /\ e[1] = <<r, Lower(n)>> /\ e[2] = ou
      /\ \A i \in 1 .. N : e[2 + i] = BaseDn[i]
  BY AtShape
<1> HIDE DEF d, e
<1>3. /\ IsSeq(l) /\ Len(l) = N + 2
      /\ \A i \in 1 .. N + 2 : l[i] = <<d[i][1], Lower(d[i][2])>>
  BY <1>1, LowerShape
<1> HIDE DEF l
<1>4. N \in Nat /\ \A i \in 1 .. N : <<BaseDn[i][1], Lower(BaseDn[i][2])>> = BaseDn[i]
  BY BaseLower
<1> HIDE DEF N
<1>5. l[1] = e[1]
  BY <1>1, <1>2, <1>3, <1>4
<1>6. l[2] = e[2]
  <2>1. <<ou[1], Lower(ou[2])>> = ou
    BY Units
  <2> QED
    BY <1>1, <1>2, <1>3, <1>4, <2>1
<1>7. \A i \in 1 .. N : l[2 + i] = e[2 + i]
  <2> SUFFICES ASSUME NEW i \in 1 .. N PROVE l[2 + i] = e[2 + i]
    OBVIOUS
  <2>1. 2 + i \in 1 .. N + 2
    BY <1>4
  <2> QED
    BY <1>1, <1>2, <1>3, <1>4, <2>1
<1>8. \A k \in 1 .. N + 2 : l[k] = e[k]
  <2> SUFFICES ASSUME NEW k \in 1 .. N + 2 PROVE l[k] = e[k]
    OBVIOUS
  <2>1. k = 1 \/ k = 2 \/ (k - 2 \in 1 .. N /\ 2 + (k - 2) = k)
    BY <1>4
  <2> QED
    BY <1>5, <1>6, <1>7, <2>1
<1> QED
  BY <1>2, <1>3, <1>8, SeqSame DEF l, d, e

LEMMA AtUnderBase ==
    ASSUME NEW r, NEW n, NEW ou
    PROVE  IsSubtree(At(r, n, ou), BaseDn)
<1> DEFINE d == At(r, n, ou)
<1>1. Len(d) = Len(BaseDn) + 2 /\ \A i \in 1 .. Len(BaseDn) : d[2 + i] = BaseDn[i]
  BY AtShape
<1>2. Len(BaseDn) \in Nat /\ DOMAIN BaseDn = 1 .. Len(BaseDn)
  BY BaseLower
<1> HIDE DEF d
<1>3. Len(BaseDn) <= Len(d) /\ Len(d) - Len(BaseDn) = 2
  BY <1>1, <1>2
<1> QED
  BY <1>1, <1>2, <1>3 DEF IsSubtree, d

\* get_id_from_distinguished_name, of what has been read.
IdOf(parts, unit) ==
    IF Len(parts) = Len(BaseDn) + 2 /\ IsSubtree(parts, BaseDn)
          /\ parts[2] = unit /\ parts[1][1] \in {"cn", "uid"}
    THEN parts[1][2] ELSE NoText

LEMMA IdOfRead ==
    ASSUME NEW d, NEW unit
    PROVE  IdFromDn(LowerDn(d), unit) = IdOf(ReadDn(d), unit)
BY DEF IdFromDn, IdOf, ReadDn

LEMMA IdOfAt ==
    ASSUME NEW r, NEW n, NEW ou, NEW unit
    PROVE  IdOf(At(r, n, ou), unit) = IF ou = unit /\ r \in {"cn", "uid"} THEN n ELSE NoText
<1> DEFINE d == At(r, n, ou)
<1>1. Len(d) = Len(BaseDn) + 2 /\ d[1] = <<r, n>> /\ d[2] = ou
  BY AtShape
<1>2. IsSubtree(d, BaseDn)
  BY AtUnderBase
<1> HIDE DEF d
<1>3. d[1][1] = r /\ d[1][2] = n
  BY <1>1
<1> QED
  BY <1>1, <1>2, <1>3 DEF IdOf, d

LEMMA ReadAsFacts ==
    ASSUME NEW t, Lower(t) = t
    PROVE  /\ IsSeq(ReadAs(t).more) /\ Lower(ReadAs(t).value) = ReadAs(t).value
           /\ t \notin {"dn", "pattern"} => ReadAs(t).value \notin {"dn", "pattern"}
           /\ Plain(t) => ReadAs(t).value = t /\ ReadAs(t).more = <<>>
<1>1. CASE Plain(t)
  <2>1. ReadAs(t).value = t /\ ReadAs(t).more = <<>>
    BY <1>1 DEF ReadAs
  <2>2. <<>> \in Seq({})
    OBVIOUS
  <2>3. IsSeq(<<>>)
    BY <2>2, SeqFromDomain
  <2> QED
    BY <2>1, <2>3
<1>2. CASE ~Plain(t)
  <2>1. t \in DOMAIN Pieces /\ ReadAs(t) = Pieces[t]
    BY <1>2 DEF ReadAs, Plain
  <2> QED
    BY <1>2, <2>1, DnAssumption DEF Lower
<1> QED
  BY <1>1, <1>2

LEMMA ParseShape ==
    ASSUME NEW d, IsSeq(d), d # <<>>, NEW v, NEW more, IsSeq(more),
           v = ReadAs(d[1][2]).value, more = ReadAs(d[1][2]).more, v # NoText
    PROVE  /\ IsSeq(ParseDn(d)) /\ Len(ParseDn(d)) = Len(d) + Len(more)
           /\ ParseDn(d)[1] = <<d[1][1], v>>
           /\ \A k \in 2 .. Len(d) : ParseDn(d)[Len(more) + k] = d[k]
<1> DEFINE x == <<d[1][1], v>>
           t == Tail(d)
           S == {x} \cup Range(more) \cup Range(d)
           a == <<x>> \o more
           p == ParseDn(d)
           m == Len(more)
           n == Len(d)
<1>1. n \in Nat /\ n # 0 /\ m \in Nat
  BY SeqShape, EmptySeq DEF IsSeq
<1>2. p = a \o t
  BY DEF ParseDn
<1> HIDE DEF x
<1>3. d \in Seq(S) /\ more \in Seq(S) /\ <<x>> \in Seq(S)
  <2>1. d \in Seq(Range(d)) /\ more \in Seq(Range(more))
    BY DEF IsSeq
  <2>2. <<x>> \in Seq({x})
    OBVIOUS
  <2> QED
    BY <2>1, <2>2, SeqMonotonic
<1> HIDE DEF S
<1>4. t \in Seq(S) /\ Len(t) = n - 1 /\ \A k \in 1 .. (n - 1) : t[k] = d[k + 1]
  BY <1>1, <1>3, HeadTailProperties, EmptySeq
<1>5. /\ a \in Seq(S) /\ Len(a) = 1 + m
      /\ \A k \in 1 .. (1 + m) : a[k] = IF k <= 1 THEN <<x>>[k] ELSE more[k - 1]
  <2>1. Len(<<x>>) = 1
    OBVIOUS
  <2> QED
    BY <1>1, <1>3, <2>1, ConcatProperties
<1>6. a[1] = x
  BY <1>1, <1>5
<1> HIDE DEF a, t
<1>7. /\ a \o t \in Seq(S) /\ Len(a \o t) = (1 + m) + (n - 1)
      /\ \A k \in 1 .. ((1 + m) + (n - 1)) :
            (a \o t)[k] = IF k <= 1 + m THEN a[k] ELSE t[k - (1 + m)]
  <2>1. /\ a \o t \in Seq(S) /\ Len(a \o t) = Len(a) + Len(t)
        /\ \A k \in 1 .. Len(a) + Len(t) :
              (a \o t)[k] = IF k <= Len(a) THEN a[k] ELSE t[k - Len(a)]
    BY <1>4, <1>5, ConcatProperties
  <2> QED
    BY <1>4, <1>5, <2>1
<1> HIDE DEF p
<1>8. p \in Seq(S) /\ Len(p) = n + m
  BY <1>1, <1>2, <1>7
<1>9. p[1] = x
  <2>1. 1 \in 1 .. ((1 + m) + (n - 1)) /\ 1 <= 1 + m
    BY <1>1
  <2> QED
    BY <1>2, <1>6, <1>7, <2>1
<1>10. ASSUME NEW k \in 2 .. n PROVE p[m + k] = d[k]
  <2>1. /\ m + k \in 1 .. ((1 + m) + (n - 1)) /\ ~(m + k <= 1 + m)
        /\ (m + k) - (1 + m) = k - 1 /\ k - 1 \in 1 .. (n - 1) /\ (k - 1) + 1 = k
    BY <1>1
  <2>2. p[m + k] = t[k - 1]
    BY <1>2, <1>7, <2>1
  <2> QED
    BY <1>4, <2>1, <2>2
<1>11. IsSeq(p)
  BY <1>8, SeqFromDomain
<1> QED
  BY <1>8, <1>9, <1>10, <1>11 DEF p, x

\* What is read where the DN of an entry was written: an error, the DN of an
\* entry, or a DN that is too long for one.
IsRead(d, r, ou) ==
    \/ d = <<>>
    \/ \E w : Lower(w) = w /\ w \notin Marks /\ d = At(r, w, ou)
    \/ IsSeq(d) /\ Len(d) > Len(BaseDn) + 2 /\ IsSubtree(d, BaseDn)

LEMMA ReadAt ==
    ASSUME NEW r, NEW n, n \notin {"dn", "pattern"}, NEW ou \in {People, Groups}
    PROVE  IsRead(ReadDn(At(r, n, ou)), r, ou)
<1> DEFINE l == At(r, Lower(n), ou)
           t == Lower(n)
           v == ReadAs(t).value
           more == ReadAs(t).more
           d == ParseDn(l)
           N == Len(BaseDn)
           m == Len(more)
<1>1. ReadDn(At(r, n, ou)) = d
  BY LowerAt DEF ReadDn
<1>2. Lower(t) = t /\ t \notin {"dn", "pattern"}
  BY TextAssumption DEF Lower, Marks
<1>3. /\ IsSeq(l) /\ Len(l) = N + 2 /\ l[1] = <<r, t>> /\ l[2] = ou
      /\ \A i \in 1 .. N : l[2 + i] = BaseDn[i]
  BY AtShape
<1>4. N \in Nat /\ DOMAIN BaseDn = 1 .. N
  BY BaseLower
<1>5. l[1][1] = r /\ l[1][2] = t /\ l # <<>>
  BY <1>3, <1>4
<1> HIDE DEF l, t, N
<1>6. IsSeq(more) /\ Lower(v) = v /\ v \notin {"dn", "pattern"}
  BY <1>2, ReadAsFacts
<1> HIDE DEF v, more
<1>7. CASE v = NoText
  <2>1. d = <<>>
    BY <1>5, <1>7 DEF ParseDn, v
  <2> QED
    BY <1>1, <2>1 DEF IsRead
<1>8. CASE v # NoText
  <2>1. /\ IsSeq(d) /\ Len(d) = N + 2 + m /\ d[1] = <<r, v>>
        /\ \A k \in 2 .. N + 2 : d[m + k] = l[k]
    <3>1. v = ReadAs(l[1][2]).value /\ more = ReadAs(l[1][2]).more
      BY <1>5 DEF v, more
    <3> HIDE DEF m
    <3>2. /\ IsSeq(d) /\ Len(d) = Len(l) + m /\ d[1] = <<l[1][1], v>>
          /\ \A k \in 2 .. Len(l) : d[m + k] = l[k]
      BY <1>3, <1>5, <1>6, <1>8, <3>1, ParseShape DEF m
    <3> QED
      BY <1>3, <1>5, <3>2
  <2>2. m \in Nat
    BY <1>6, SeqShape
  <2> HIDE DEF d, m
  <2>3. \A i \in 1 .. N : d[m + 2 + i] = BaseDn[i]
    <3> SUFFICES ASSUME NEW i \in 1 .. N PROVE d[m + 2 + i] = BaseDn[i]
      OBVIOUS
    <3>1. 2 + i \in 2 .. N + 2 /\ m + 2 + i = m + (2 + i)
      BY <1>4, <2>2
    <3> QED
      BY <1>3, <2>1, <3>1
  <2>4. d[m + 2] = ou
    BY <1>3, <1>4, <2>1
  <2>5. CASE m = 0
    <3> DEFINE e == At(r, v, ou)
    <3>1. /\ IsSeq(e) /\ Len(e) = N + 2 /\ e[1] = <<r, v>> /\ e[2] = ou
          /\ \A i \in 1 .. N : e[2 + i] = BaseDn[i]
      BY AtShape DEF N
    <3> HIDE DEF e
    <3>2. Len(d) = N + 2 /\ d[2] = ou /\ \A i \in 1 .. N : d[2 + i] = BaseDn[i]
      BY <1>4, <2>1, <2>3, <2>4, <2>5
    <3>3. \A k \in 1 .. N + 2 : d[k] = e[k]
      <4> SUFFICES ASSUME NEW k \in 1 .. N + 2 PROVE d[k] = e[k]
        OBVIOUS
      <4>1. k = 1 \/ k = 2 \/ (k - 2 \in 1 .. N /\ 2 + (k - 2) = k)
        BY <1>4
      <4> QED
        BY <2>1, <3>1, <3>2, <4>1
    <3>4. d = e
      BY <2>1, <3>1, <3>2, <3>3, SeqSame
    <3> QED
      BY <1>1, <1>6, <1>8, <3>4 DEF IsRead, Marks, e
  <2>6. CASE m # 0
    <3>1. N <= Len(d) /\ Len(d) - N = m + 2 /\ Len(d) > N + 2
      BY <1>4, <2>1, <2>2, <2>6
    <3>2. IsSubtree(d, BaseDn)
      BY <1>4, <2>3, <3>1 DEF IsSubtree, N
    <3> QED
      BY <1>1, <2>1, <3>1, <3>2 DEF IsRead, N
  <2> QED
    BY <2>5, <2>6
<1> QED
  BY <1>7, <1>8

\* The id in what is read where the DN of an entry was written.
LEMMA IdOfNothing ==
    ASSUME NEW d, d = <<>> \/ Len(d) > Len(BaseDn) + 2, NEW unit
    PROVE  IdOf(d, unit) = NoText
<1>1. Len(BaseDn) \in Nat
  BY BaseLower
<1>2. Len(d) # Len(BaseDn) + 2
  BY <1>1
<1> QED
  BY <1>2 DEF IdOf

LEMMA AtInjective ==
    ASSUME NEW r, NEW n, NEW ou, NEW s, NEW m, NEW unit, At(r, n, ou) = At(s, m, unit)
    PROVE  r = s /\ n = m /\ ou = unit
<1>1. At(r, n, ou)[1] = <<r, n>> /\ At(r, n, ou)[2] = ou
  BY AtShape
<1>2. At(s, m, unit)[1] = <<s, m>> /\ At(s, m, unit)[2] = unit
  BY AtShape
<1> QED
  BY <1>1, <1>2

\* The base DN and the organizational units are read as they are written.
LEMMA ReadBase == ReadDn(BaseDn) = BaseDn
BY DnAssumption DEF ReadDn

\* What is read is a sequence of pairs.
LEMMA ReadShape ==
    ASSUME NEW w, IsSeq(w)
    PROVE  /\ IsSeq(ReadDn(w))
           /\ ReadDn(w) # <<>> => /\ ReadDn(w)[1] = <<ReadDn(w)[1][1], ReadDn(w)[1][2]>>
                                /\ Lower(ReadDn(w)[1][2]) = ReadDn(w)[1][2]
<1> DEFINE l == LowerDn(w)
           t == l[1][2]
<1>1. IsSeq(l) /\ Len(l) = Len(w) /\ \A i \in 1 .. Len(w) : l[i] = <<w[i][1], Lower(w[i][2])>>
  BY LowerShape
<1>2. Len(w) \in Nat /\ DOMAIN w = 1 .. Len(w)
  BY SeqShape
<1> HIDE DEF l
<1>3. CASE ParseDn(l) = <<>>
  <2>1. <<>> \in Seq({})
    OBVIOUS
  <2>2. IsSeq(<<>>)
    BY <2>1, SeqFromDomain
  <2> QED
    BY <1>3, <2>2 DEF ReadDn, l
<1>4. CASE ParseDn(l) # <<>>
  <2>1. l # <<>> /\ ReadAs(t).value # NoText
    BY <1>4 DEF ParseDn
  <2>2. 1 \in 1 .. Len(w)
    BY <1>1, <1>2, <2>1, EmptySeq DEF IsSeq
  <2>3. Lower(t) = t
    BY <1>1, <2>2, LowerFacts
  <2>4. IsSeq(ReadAs(t).more) /\ Lower(ReadAs(t).value) = ReadAs(t).value
    BY <2>3, ReadAsFacts
  <2>5. IsSeq(ParseDn(l)) /\ ParseDn(l)[1] = <<l[1][1], ReadAs(t).value>>
    BY <1>1, <2>1, <2>4, ParseShape
  <2> QED
    BY <2>4, <2>5 DEF ReadDn, l
<1> QED
  BY <1>3, <1>4

\* The DN that an id comes from.
LEMMA AtOfId ==
    ASSUME NEW d, IsSeq(d), d # <<>> => d[1] = <<d[1][1], d[1][2]>>, NEW unit,
           IdOf(d, unit) # NoText
    PROVE  \E r \in {"cn", "uid"} : d = At(r, IdOf(d, unit), unit)
<1> DEFINE id == IdOf(d, unit)
           N == Len(BaseDn)
<1>2. /\ Len(d) = N + 2 /\ IsSubtree(d, BaseDn) /\ d[2] = unit /\ d[1][1] \in {"cn", "uid"}
      /\ id = d[1][2]
  BY DEF IdOf
<1>3. N \in Nat /\ DOMAIN BaseDn = 1 .. N
  BY BaseLower
<1> DEFINE r == d[1][1]
           e == At(r, id, unit)
<1>4. /\ IsSeq(e) /\ Len(e) = N + 2 /\ e[1] = <<r, id>> /\ e[2] = unit
      /\ \A i \in 1 .. N : e[2 + i] = BaseDn[i]
  BY AtShape
<1> HIDE DEF e, id, N
<1>5. d[1] = e[1]
  <2>1. d # <<>>
    BY <1>2, <1>3
  <2> QED
    BY <1>2, <1>4, <2>1
<1>6. \A i \in 1 .. N : d[2 + i] = e[2 + i]
  <2>1. Len(d) - N = 2
    BY <1>2, <1>3
  <2>2. \A i \in 1 .. N : d[2 + i] = BaseDn[i]
    BY <1>2, <1>3, <2>1 DEF IsSubtree, N
  <2> QED
    BY <1>4, <2>2
<1>7. \A k \in 1 .. N + 2 : d[k] = e[k]
  <2> SUFFICES ASSUME NEW k \in 1 .. N + 2 PROVE d[k] = e[k]
    OBVIOUS
  <2>1. k = 1 \/ k = 2 \/ (k - 2 \in 1 .. N /\ 2 + (k - 2) = k)
    BY <1>3
  <2> QED
    BY <1>2, <1>4, <1>5, <1>6, <2>1
<1>8. d = e
  BY <1>2, <1>4, <1>7, SeqSame
<1> QED
  BY <1>2, <1>8 DEF e, id

-----------------------------------------------------------------------------
(* Searches that nothing interferes with.                                   *)

LEMMA ScopeOfBase ==
    Scope(BaseDn, FALSE) = "Global"
<1>2. Len(BaseDn) \in Nat
  BY BaseLower
<1>3. IsSubtree(BaseDn, BaseDn)
  <2>1. \A i \in DOMAIN BaseDn : Len(BaseDn) - Len(BaseDn) + i = i
    BY BaseLower
  <2> QED
    BY <1>2, <2>1 DEF IsSubtree
<1>4. Len(BaseDn) - Len(BaseDn) = 0
  BY <1>2
<1> QED
  BY <1>3, <1>4 DEF Scope

LEMMA SearchFromBase ==
    ASSUME NEW i, NEW f, NEW fields, NEW failing
    PROVE  SearchNow(i, BaseDn, f, fields, failing) =
              Answer("Global",
                     IF "users" \in failing THEN Refused
                     ELSE UserList(db, i, f, GetSchema(db, i), fields),
                     IF "groups" \in failing THEN Refused
                     ELSE GroupList(db, i, f, GetSchema(db, i), fields))
<1>1. ReadDn(BaseDn) = BaseDn /\ BaseDn # <<>> /\ Scope(BaseDn, FALSE) = "Global"
  BY ReadBase, ScopeOfBase, DnAssumption
<1>2. Scoped(BaseDn, f, "Global") = f
  BY DEF Scoped
<1>3. ListsUsers("Global") /\ ListsGroups("Global")
  BY DEF ListsUsers, ListsGroups
<1> QED
  BY <1>1, <1>2, <1>3 DEF SearchNow, UserPart, GroupPart

\* A filter of one leaf.
LEMMA OneLeaf ==
    ASSUME NEW p, p.of = {}, NEW atoms
    PROVE  /\ IsFilter(<<p>>) /\ Len(<<p>>) = 1 /\ DOMAIN <<p>> = {1} /\ <<p>>[1] = p
           /\ Value(<<p>>, atoms) = Combined(p, atoms[1], {})
<1> DEFINE f == <<p>>
<1>1. /\ f \in Seq({p}) /\ Len(f) = 1 /\ DOMAIN f = {1} /\ f[1] = p /\ f # <<>>
  OBVIOUS
<1> HIDE DEF f
<1>2. IsFilter(f)
  BY <1>1, SeqFromDomain DEF IsFilter, Leaves
<1>3. 1 \in 1 .. Len(f)
  BY <1>1
<1>4. Truth(f, atoms)[1] = Combined(f[1], atoms[1], Operands(f, atoms, 1))
  BY <1>2, <1>3, TruthUnfolds
<1>5. Operands(f, atoms, 1) = {}
  BY <1>1 DEF Operands
<1> QED
  BY <1>1, <1>2, <1>4, <1>5 DEF Value, f

\* get_user_list finds no user by the DN of a group.
LEMMA NoUserAtGroupDn ==
    ASSUME NEW i \in Caller, i.permission = "Readonly", NEW n \in GroupName,
           NEW fields, NEW s
    PROVE  UserList(db, i, DnFilter(GroupDn(n)), s, fields) = NoEntries
<1> DEFINE p == Leaf("Equality", "dn", Dn(GroupDn(n)))
           f == DnFilter(GroupDn(n))
           c == ConvertUserFilter(f, s)
           q == FromBool(FALSE)
<1>1. p.op = "Equality" /\ p.field = "dn" /\ p.v = Dn(GroupDn(n)) /\ p.of = {}
  BY DEF Leaf
<1>2. f = <<p>>
  BY DEF DnFilter
<1> HIDE DEF p, f
<1>4. IdFromDn(LowerValue(p.v).dn, People) = NoText
  <2> DEFINE d == ReadDn(At("cn", n, Groups))
  <2>1. p.v.dn = At("cn", n, Groups)
    BY <1>1 DEF Dn, GroupDn, At
  <2>2. IdFromDn(LowerValue(p.v).dn, People) = IdOf(d, People)
    BY <2>1, IdOfRead DEF LowerValue
  <2>3. n \notin {"dn", "pattern"}
    BY SearchAssumption DEF Marks
  <2>4. IsRead(d, "cn", Groups)
    BY <2>3, ReadAt
  <2> HIDE DEF d
  <2>5. CASE d = <<>> \/ Len(d) > Len(BaseDn) + 2
    BY <2>2, <2>5, IdOfNothing
  <2>6. CASE \E w : d = At("cn", w, Groups)
    BY <2>2, <2>6, IdOfAt, Units
  <2> QED
    BY <2>4, <2>5, <2>6 DEF IsRead
<1>5. MapUserField("dn", s) = "Dn"
  BY DEF MapUserField, UserFieldType
<1>6. UserNode(p, s) = q
  <2>1. UserNode(p, s) = UserEquality("dn", LowerValue(p.v), s)
    BY <1>1 DEF UserNode, Connective
  <2> QED
    BY <1>4, <1>5, <2>1 DEF UserEquality
<1>7. c = <<q>>
  <2>1. DOMAIN f = {1} /\ f[1] = p
    BY <1>2
  <2>2. c = [k \in {1} |-> q]
    BY <1>6, <2>1 DEF ConvertUserFilter
  <2> HIDE DEF c, q
  <2> QED
    BY <2>2
<1> HIDE DEF c
<1>8. ~IsError(c)
  <2>1. q.op # "Error"
    BY FromBoolFields
  <2> HIDE DEF q
  <2> QED
    BY <1>7, <2>1 DEF IsError
<1>9. \A u : UserCondition(db, u, c) = "F"
  <2> SUFFICES ASSUME NEW u PROVE UserCondition(db, u, c) = "F"
    OBVIOUS
  <2> DEFINE a == [k \in Leaves(c) |-> UserAtom(db, u, c[k])]
  <2>1. q.of = {}
    BY FromBoolFields
  <2>2. Combined(q, a[1], {}) = "F"
    BY FromBoolValue DEF Bool
  <2> HIDE DEF a, q
  <2>3. Value(c, a) = "F"
    BY <1>7, <2>1, <2>2, OneLeaf
  <2> QED
    BY <2>3 DEF UserCondition, a
<1>10. Restricted(i, c, "UserId") = c
  BY DEF Restricted
<1>11. UsersSelected(db, c) = {}
  BY <1>9 DEF UsersSelected
<1> QED
  BY <1>8, <1>10, <1>11 DEF UserList, NoEntries, c, f

\* The id in the DN of a group of the name n.
NameRead(n) == IdOf(ReadDn(GroupDn(n)), Groups)

LEMMA DenotedByName ==
    ASSUME TablesOK, NEW n \in GroupName
    PROVE  /\ Denoted(n) = {g \in GroupId : db.group[g] # NoText /\ Lower(db.group[g]) = NameRead(n)}
           /\ Lower(NameRead(n)) = NameRead(n)
<1> DEFINE d == ReadDn(GroupDn(n))
           id == IdOf(d, Groups)
<1>1. n \notin {"dn", "pattern"}
  BY SearchAssumption DEF Marks
<1>2. IsRead(d, "cn", Groups)
  BY <1>1, ReadAt DEF GroupDn, At
<1>3. \A t : LowerDn(GroupDn(t)) = At("cn", Lower(t), Groups)
  BY LowerAt DEF GroupDn, At
<1>4. \A t : IdOf(At("cn", t, Groups), Groups) = t
  BY IdOfAt
<1> HIDE DEF d
<1>5. Lower(id) = id /\ \A t : t # NoText => (LowerDn(GroupDn(t)) = d <=> Lower(t) = id)
  <2>1. CASE d = <<>> \/ Len(d) > Len(BaseDn) + 2
    <3>1. id = NoText
      BY <2>1, IdOfNothing
    <3>2. Lower(NoText) = NoText /\ \A t : t # NoText => Lower(t) # NoText
      BY LowerFacts
    <3> HIDE DEF id
    <3>3. \A t : LowerDn(GroupDn(t)) = d => id = Lower(t)
      BY <1>3, <1>4 DEF id
    <3> QED
      BY <3>1, <3>2, <3>3
  <2>2. CASE \E w : Lower(w) = w /\ d = At("cn", w, Groups)
    <3>1. PICK w : Lower(w) = w /\ d = At("cn", w, Groups)
      BY <2>2
    <3>2. id = w
      BY <1>4, <3>1
    <3>3. \A t : At("cn", Lower(t), Groups) = At("cn", w, Groups) => Lower(t) = w
      BY AtInjective
    <3> HIDE DEF id
    <3> QED
      BY <1>3, <3>1, <3>2, <3>3
  <2> QED
    BY <1>2, <2>1, <2>2 DEF IsRead
<1> QED
  BY <1>5 DEF Denoted, NameRead, d

\* get_groups_list finds the groups that the DN of a group denotes.
LEMMA GroupsAtGroupDn ==
    ASSUME TablesOK, NEW i \in Caller, i.permission = "Readonly", NEW n \in GroupName,
           NEW fields, NEW s
    PROVE  GroupList(db, i, DnFilter(GroupDn(n)), s, fields) =
              [ok |-> TRUE, entries |->
                  {[id |-> g, shown |-> [a \in fields |-> GroupValues(db, g, a, s, UserFilter(i))]]
                   : g \in Denoted(n)}]
<1> DEFINE p == Leaf("Equality", "dn", Dn(GroupDn(n)))
           f == DnFilter(GroupDn(n))
           c == ConvertGroupFilter(f, s)
           id == NameRead(n)
           q == IF id = NoText THEN FromBool(FALSE) ELSE Leaf("DisplayName", "", id)
<1>1. p.op = "Equality" /\ p.field = "dn" /\ p.v = Dn(GroupDn(n)) /\ p.of = {}
  BY DEF Leaf
<1>2. f = <<p>>
  BY DEF DnFilter
<1> HIDE DEF p, f
<1>4. IdFromDn(LowerValue(p.v).dn, Groups) = id
  <2>1. p.v.dn = GroupDn(n)
    BY <1>1 DEF Dn
  <2> QED
    BY <2>1, IdOfRead DEF LowerValue, NameRead
<1>5. MapGroupField("dn", s) = "Dn"
  BY DEF MapGroupField, GroupFieldType
<1>6. GroupNode(p, s) = q
  <2>1. GroupNode(p, s) = GroupEquality("dn", LowerValue(p.v), s)
    BY <1>1 DEF GroupNode, Connective
  <2> HIDE DEF id
  <2> QED
    BY <1>4, <1>5, <2>1 DEF GroupEquality
<1>7. c = <<q>>
  <2>1. DOMAIN f = {1} /\ f[1] = p
    BY <1>2
  <2>2. c = [k \in {1} |-> q]
    BY <1>6, <2>1 DEF ConvertGroupFilter
  <2> HIDE DEF c, q
  <2> QED
    BY <2>2
<1> HIDE DEF c
<1>8. Lower(id) = id
  BY DenotedByName
<1> HIDE DEF id
<1> DEFINE no == FromBool(FALSE)
           yes == Leaf("DisplayName", "", id)
<1>0. no.of = {} /\ no.op # "Error" /\ yes.op = "DisplayName" /\ yes.v = id /\ yes.of = {}
  <2>1. no.of = {} /\ no.op # "Error"
    BY DEF FromBool, Node
  <2>2. yes.op = "DisplayName" /\ yes.v = id /\ yes.of = {}
    BY DEF Leaf
  <2> QED
    BY <2>1, <2>2
<1> HIDE DEF no, yes
<1>9. q.of = {} /\ q.op # "Error"
  BY <1>0 DEF no, yes
<1>10. ~IsError(c)
  <2> HIDE DEF q
  <2> QED
    BY <1>7, <1>9 DEF IsError
<1>11. ASSUME NEW h \in GroupId, db.group[h] # NoText
       PROVE  GroupCondition(db, h, c) = "T" <=> Lower(db.group[h]) = id
  <2> DEFINE a == [k \in Leaves(c) |-> GroupAtom(db, h, c[k])]
  <2>0. Lower(db.group[h]) # NoText
    BY <1>11, LowerFacts
  <2>1. CASE id = NoText
    <3>1. q = FromBool(FALSE)
      BY <2>1
    <3>2. Combined(q, a[1], {}) = "F"
      BY <3>1, FromBoolValue DEF Bool
    <3> HIDE DEF a, q
    <3>3. Value(c, a) = "F"
      BY <1>7, <1>9, <3>2, OneLeaf
    <3> QED
      BY <2>0, <2>1, <3>3 DEF GroupCondition, a
  <2>2. CASE id # NoText
    <3>1. q.op = "DisplayName" /\ q.v = id
      BY <1>0, <2>2 DEF yes
    <3> HIDE DEF q
    <3>2. 1 \in Leaves(c) /\ c[1] = q
      BY <1>7, <3>1 DEF Leaves, Connective
    <3>3. a[1] = Bool(Lower(db.group[h]) = id)
      <4>1. a[1] = GroupAtom(db, h, q)
        BY <3>2
      <4> QED
        BY <4>1, <3>1, <1>8 DEF GroupAtom
    <3> HIDE DEF a
    <3>4. Value(c, a) = Combined(q, a[1], {})
      BY <1>7, <1>9, OneLeaf
    <3>5. Combined(q, a[1], {}) = a[1]
      BY <3>1 DEF Combined
    <3> QED
      BY <3>3, <3>4, <3>5 DEF GroupCondition, a, Bool
  <2> QED
    BY <2>1, <2>2
<1>12. Restricted(i, c, "Member") = c
  BY DEF Restricted
<1>13. GroupsSelected(db, c) = Denoted(n)
  BY <1>11, DenotedByName DEF GroupsSelected, id
<1> DEFINE Entry(h) == [id |-> h, shown |-> [a \in fields |-> GroupValues(db, h, a, s, UserFilter(i))]]
<1>14. GroupList(db, i, f, s, fields) =
          [ok |-> TRUE, entries |-> {Entry(h) : h \in GroupsSelected(db, Restricted(i, c, "Member"))}]
  BY <1>10 DEF GroupList, c
<1> QED
  BY <1>12, <1>13, <1>14 DEF f

LEMMA TextFields == \A t : Text(t).text = t /\ Text(t).dn = <<>> /\ Text(t).like = {}
BY DEF Text

LEMMA DnFields == \A d : Dn(d).text = "dn" /\ Dn(d).dn = d /\ Dn(d).like = {}
BY DEF Dn

\* The values of the members of a group.
LEMMA MembersShown ==
    ASSUME NEW g \in GroupId, NEW s, NEW own, own = UserId, NEW u \in UserId
    PROVE  Dn(UserDn(u)) \in GroupValues(db, g, "member", s, own) <=> <<u, g>> \in db.members
<1> DEFINE v == Dn(UserDn(u))
           vs == {Dn(UserDn(x)) : x \in MembersOf(db, g) \cap own}
<1>1. MapGroupField("member", s) = "Member"
  BY DEF MapGroupField, GroupFieldType
<1>2. GroupAll(db, g, "member", s, own) = vs
  BY <1>1 DEF GroupAll
<1>3. vs # {Text("")}
  <2>1. \A x : Dn(UserDn(x)) # Text("")
    BY DnFields, TextFields
  <2> QED
    BY <2>1
<1>4. GroupValues(db, g, "member", s, own) = vs
  <2> HIDE DEF vs
  <2> QED
    BY <1>1, <1>2, <1>3 DEF GroupValues, Shown
<1>5. ASSUME NEW x, Dn(UserDn(x)) = v
      PROVE  x = u
  <2>1. UserDn(x) = UserDn(u)
    BY <1>5, DnFields
  <2>2. At("uid", x, People) = At("uid", u, People)
    BY <2>1 DEF UserDn, At
  <2> QED
    BY <2>2, AtInjective
<1> HIDE DEF v
<1>6. v \in vs <=> u \in MembersOf(db, g)
  BY <1>5 DEF v
<1> QED
  BY <1>4, <1>6 DEF MembersOf, v

\* do_compare of the DN of a group tells whether a user is a member.
LEMMA CompareMember ==
    ASSUME TablesOK, NEW i \in Caller, i.permission = "Readonly", NEW u \in UserId,
           NEW n \in GroupName
    PROVE  CompareNow(i, GroupDn(n), "member", Dn(UserDn(u))) =
              IF Denoted(n) = {} THEN "NoSuchObject"
              ELSE IF \A g \in Denoted(n) : <<u, g>> \in db.members
              THEN "CompareTrue" ELSE "CompareFalse"
<1> DEFINE f == DnFilter(GroupDn(n))
           s == GetSchema(db, i)
           own == UserFilter(i)
           fields == {"member"}
           E(g) == [id |-> g, shown |-> [a \in fields |-> GroupValues(db, g, a, s, own)]]
           es == {E(g) : g \in Denoted(n)}
           v == Dn(UserDn(u))
           answer == SearchNow(i, BaseDn, f, fields, {})
<1>0. "member" \in fields
  OBVIOUS
<1> HIDE DEF fields
<1>1. UserList(db, i, f, s, fields) = NoEntries
  BY NoUserAtGroupDn
<1>2. GroupList(db, i, f, s, fields) = [ok |-> TRUE, entries |-> es]
  BY GroupsAtGroupDn
<1> HIDE DEF es, f, s
<1>3. answer = Answer("Global", NoEntries, [ok |-> TRUE, entries |-> es])
  <2> DEFINE failing == {}
             us == UserList(db, i, f, s, fields)
             gs == GroupList(db, i, f, s, fields)
  <2>1. "users" \notin failing /\ "groups" \notin failing
    OBVIOUS
  <2> HIDE DEF failing
  <2>2. SearchNow(i, BaseDn, f, fields, failing) = Answer("Global", us, gs)
    BY <2>1, SearchFromBase DEF s
  <2> QED
    BY <1>1, <1>2, <2>2 DEF failing
<1> HIDE DEF answer
<1>4. answer.entries = es
  BY <1>3 DEF Answer, NoEntries
<1>5. CompareNow(i, GroupDn(n), "member", v) = CompareResult(answer, "member", v)
  BY DEF CompareNow, answer, f, fields
<1>6. CASE Denoted(n) = {}
  <2>1. answer.entries = {}
    BY <1>4, <1>6 DEF es
  <2>2. Cardinality(answer.entries) = 0
    BY <2>1, FS_EmptySet
  <2>3. CompareResult(answer, "member", v) = "NoSuchObject"
    <3> HIDE DEF v
    <3> QED
      BY <2>1, <2>2 DEF CompareResult
  <2> QED
    BY <1>5, <1>6, <2>3
<1>7. CASE Denoted(n) # {}
  <2>1. PICK g : g \in Denoted(n)
    BY <1>7
  <2>2. g \in GroupId /\ Denoted(n) = {g}
    BY <2>1, DenotedByName DEF TablesOK, NamesUnique
  <2> DEFINE e == E(g)
  <2>3. answer.entries = {e}
    BY <1>4, <2>2 DEF es
  <2>4. e.shown["member"] = GroupValues(db, g, "member", s, own)
    BY <1>0
  <2>5. own = UserId
    BY DEF UserFilter
  <2>6. v \in e.shown["member"] <=> <<u, g>> \in db.members
    <3> HIDE DEF own, e
    <3> QED
      BY <2>2, <2>4, <2>5, MembersShown
  <2> HIDE DEF e, v, own
  <2>7. Cardinality(answer.entries) = 1
    BY <2>3, FS_Singleton
  <2>8. CompareResult(answer, "member", v) =
           IF v \in e.shown["member"] THEN "CompareTrue" ELSE "CompareFalse"
    BY <2>3, <2>7 DEF CompareResult
  <2> QED
    BY <1>5, <2>2, <2>6, <2>8 DEF v
<1> QED
  BY <1>6, <1>7

\* A comparison finds exactly the group that the DN denotes when it is read, the
\* unique index on groups.lowercase_display_name leaving no second one, and
\* answers for each user by the memberships; a DN that cannot be read, or names
\* no group, has no object.
THEOREM ComparisonsTellMemberships == Spec => []ComparesMembers
<1>1. IInv => ComparesMembers
  BY CompareMember DEF ComparesMembers, IInv, TablesOK
<1> QED
  BY <1>1, Invariance, PTL

-----------------------------------------------------------------------------
(* Searches of a subtree.                                                   *)

\* A leaf more is converted to a leaf more.
LEMMA ConvertBothUser ==
    ASSUME NEW f, IsFilter(f), NEW p, IsLeaf(p), NEW s,
           IsLeaf(UserNode(p, s)), UserNode(p, s).op # "Error"
    PROVE  /\ IsError(ConvertUserFilter(Both(f, p), s)) <=> IsError(ConvertUserFilter(f, s))
           /\ ~IsError(ConvertUserFilter(f, s)) =>
                 ConvertUserFilter(Both(f, p), s) = Both(ConvertUserFilter(f, s), UserNode(p, s))
<1> DEFINE g == Both(f, p)
           n == Len(f)
           c == ConvertUserFilter(f, s)
           l == ConvertUserFilter(g, s)
           q == UserNode(p, s)
           r == Joint(n)
<1>1. n \in Nat /\ DOMAIN f = 1 .. n
  BY FilterShape
<1>2. /\ IsFilter(g) /\ Len(g) = n + 2 /\ DOMAIN g = 1 .. (n + 2)
      /\ \A k \in 1 .. n : g[k] = f[k]
      /\ g[n + 1] = p /\ g[n + 2] = r
  BY BothShape
<1> HIDE DEF g
<1>3. r.op = "And" /\ UserNode(r, s) = r
  <2>1. r.op = "And"
    BY JointFields
  <2> HIDE DEF r
  <2> QED
    BY <2>1 DEF UserNode, Connective
<1> HIDE DEF r
<1>4. /\ DOMAIN c = 1 .. n /\ \A k \in 1 .. n : c[k] = UserNode(f[k], s)
      /\ DOMAIN l = 1 .. (n + 2) /\ \A k \in 1 .. (n + 2) : l[k] = UserNode(g[k], s)
      /\ l = [k \in 1 .. (n + 2) |-> l[k]]
  BY <1>1, <1>2 DEF ConvertUserFilter
<1> HIDE DEF c, l, q
<1>5. (\A k \in 1 .. n : l[k] = c[k]) /\ l[n + 1] = q /\ l[n + 2] = r
  <2>1. (\A k \in 1 .. n : k \in 1 .. (n + 2)) /\ n + 1 \in 1 .. (n + 2) /\ n + 2 \in 1 .. (n + 2)
    BY <1>1
  <2> QED
    BY <1>2, <1>3, <1>4, <2>1 DEF q
<1>6. \A k \in 1 .. (n + 2) : k \in 1 .. n \/ k = n + 1 \/ k = n + 2
  BY <1>1
<1>7. IsError(l) <=> IsError(c)
  <2>1. \A k \in 1 .. n : k \in 1 .. (n + 2)
    BY <1>1
  <2>2. q.op # "Error" /\ r.op # "Error"
    BY <1>3 DEF q
  <2> QED
    BY <1>4, <1>5, <1>6, <2>1, <2>2 DEF IsError
<1>8. ASSUME ~IsError(c)
      PROVE  l = Both(c, q)
  <2>1. IsFilter(c) /\ Len(c) = n
    BY <1>8, ConvertedUser DEF IsFor, c
  <2>2. IsLeaf(q)
    BY DEF q
  <2> DEFINE b == Both(c, q)
  <2>3. /\ IsFilter(b) /\ Len(b) = n + 2
        /\ \A k \in 1 .. n : b[k] = c[k]
        /\ b[n + 1] = q /\ b[n + 2] = r
    <3>1. IsFilter(b) /\ Len(b) = Len(c) + 2
      BY <2>1, <2>2, BothShape
    <3>2. \A k \in 1 .. Len(c) : b[k] = c[k]
      BY <2>1, <2>2, BothShape
    <3>3. b[Len(c) + 1] = q /\ b[Len(c) + 2] = Joint(Len(c))
      BY <2>1, <2>2, BothShape
    <3> QED
      BY <2>1, <3>1, <3>2, <3>3 DEF r
  <2> HIDE DEF b
  <2>4. IsSeq(l) /\ Len(l) = n + 2
    BY <1>1, <1>4, FunctionIsSeq
  <2>5. \A k \in 1 .. (n + 2) : l[k] = b[k]
    BY <1>5, <1>6, <2>3
  <2>6. l = b
    BY <2>3, <2>4, <2>5, SeqSame DEF IsFilter
  <2> QED
    BY <2>6 DEF b
<1> QED
  BY <1>7, <1>8 DEF c, l, q, g

LEMMA ConvertBothGroup ==
    ASSUME NEW f, IsFilter(f), NEW p, IsLeaf(p), NEW s,
           IsLeaf(GroupNode(p, s)), GroupNode(p, s).op # "Error"
    PROVE  /\ IsError(ConvertGroupFilter(Both(f, p), s)) <=> IsError(ConvertGroupFilter(f, s))
           /\ ~IsError(ConvertGroupFilter(f, s)) =>
                 ConvertGroupFilter(Both(f, p), s) = Both(ConvertGroupFilter(f, s), GroupNode(p, s))
<1> DEFINE g == Both(f, p)
           n == Len(f)
           c == ConvertGroupFilter(f, s)
           l == ConvertGroupFilter(g, s)
           q == GroupNode(p, s)
           r == Joint(n)
<1>1. n \in Nat /\ DOMAIN f = 1 .. n
  BY FilterShape
<1>2. /\ IsFilter(g) /\ Len(g) = n + 2 /\ DOMAIN g = 1 .. (n + 2)
      /\ \A k \in 1 .. n : g[k] = f[k]
      /\ g[n + 1] = p /\ g[n + 2] = r
  BY BothShape
<1> HIDE DEF g
<1>3. r.op = "And" /\ GroupNode(r, s) = r
  <2>1. r.op = "And"
    BY JointFields
  <2> HIDE DEF r
  <2> QED
    BY <2>1 DEF GroupNode, Connective
<1> HIDE DEF r
<1>4. /\ DOMAIN c = 1 .. n /\ \A k \in 1 .. n : c[k] = GroupNode(f[k], s)
      /\ DOMAIN l = 1 .. (n + 2) /\ \A k \in 1 .. (n + 2) : l[k] = GroupNode(g[k], s)
      /\ l = [k \in 1 .. (n + 2) |-> l[k]]
  BY <1>1, <1>2 DEF ConvertGroupFilter
<1> HIDE DEF c, l, q
<1>5. (\A k \in 1 .. n : l[k] = c[k]) /\ l[n + 1] = q /\ l[n + 2] = r
  <2>1. (\A k \in 1 .. n : k \in 1 .. (n + 2)) /\ n + 1 \in 1 .. (n + 2) /\ n + 2 \in 1 .. (n + 2)
    BY <1>1
  <2> QED
    BY <1>2, <1>3, <1>4, <2>1 DEF q
<1>6. \A k \in 1 .. (n + 2) : k \in 1 .. n \/ k = n + 1 \/ k = n + 2
  BY <1>1
<1>7. IsError(l) <=> IsError(c)
  <2>1. \A k \in 1 .. n : k \in 1 .. (n + 2)
    BY <1>1
  <2>2. q.op # "Error" /\ r.op # "Error"
    BY <1>3 DEF q
  <2> QED
    BY <1>4, <1>5, <1>6, <2>1, <2>2 DEF IsError
<1>8. ASSUME ~IsError(c)
      PROVE  l = Both(c, q)
  <2>1. IsFilter(c) /\ Len(c) = n
    BY <1>8, ConvertedGroup DEF IsFor, c
  <2>2. IsLeaf(q)
    BY DEF q
  <2> DEFINE b == Both(c, q)
  <2>3. /\ IsFilter(b) /\ Len(b) = n + 2
        /\ \A k \in 1 .. n : b[k] = c[k]
        /\ b[n + 1] = q /\ b[n + 2] = r
    <3>1. IsFilter(b) /\ Len(b) = Len(c) + 2
      BY <2>1, <2>2, BothShape
    <3>2. \A k \in 1 .. Len(c) : b[k] = c[k]
      BY <2>1, <2>2, BothShape
    <3>3. b[Len(c) + 1] = q /\ b[Len(c) + 2] = Joint(Len(c))
      BY <2>1, <2>2, BothShape
    <3> QED
      BY <2>1, <3>1, <3>2, <3>3 DEF r
  <2> HIDE DEF b
  <2>4. IsSeq(l) /\ Len(l) = n + 2
    BY <1>1, <1>4, FunctionIsSeq
  <2>5. \A k \in 1 .. (n + 2) : l[k] = b[k]
    BY <1>5, <1>6, <2>3
  <2>6. l = b
    BY <2>3, <2>4, <2>5, SeqSame DEF IsFilter
  <2> QED
    BY <2>6 DEF b
<1> QED
  BY <1>7, <1>8 DEF c, l, q, g

\* The DN of an organizational unit.
Unit(ou) == <<ou>> \o BaseDn

LEMMA UnitShape ==
    ASSUME NEW ou
    PROVE  /\ IsSeq(Unit(ou)) /\ Len(Unit(ou)) = Len(BaseDn) + 1
           /\ Unit(ou)[1] = ou
           /\ \A i \in 1 .. Len(BaseDn) : Unit(ou)[1 + i] = BaseDn[i]
<1> DEFINE s == <<ou>>
           b == BaseDn
           S == {ou} \cup Range(b)
           d == Unit(ou)
<1>1. IsSeq(b) /\ Len(b) \in Nat
  BY DnAssumption, SeqShape
<1>2. b \in Seq(S)
  <2>1. b \in Seq(Range(b))
    BY <1>1 DEF IsSeq
  <2> HIDE DEF b
  <2> QED
    BY <2>1, SeqMonotonic
<1>3. s \in Seq(S) /\ Len(s) = 1 /\ s[1] = ou
  <2> HIDE DEF b
  <2> QED
    OBVIOUS
<1>4. d = s \o b
  BY DEF Unit
<1> HIDE DEF s, S, d, b
<1>5. /\ s \o b \in Seq(S) /\ Len(s \o b) = Len(s) + Len(b)
      /\ \A k \in 1 .. Len(s) + Len(b) :
            (s \o b)[k] = IF k <= Len(s) THEN s[k] ELSE b[k - Len(s)]
  BY <1>2, <1>3, ConcatProperties
<1>6. IsSeq(d) /\ Len(d) = Len(b) + 1
  <2>1. d \in Seq(S) /\ Len(d) = 1 + Len(b)
    BY <1>3, <1>4, <1>5
  <2>2. IsSeq(d)
    BY <2>1, SeqFromDomain
  <2> QED
    BY <1>1, <2>1, <2>2
<1>7. d[1] = ou
  BY <1>1, <1>3, <1>4, <1>5
<1>8. \A i \in 1 .. Len(b) : d[1 + i] = b[i]
  <2> SUFFICES ASSUME NEW i \in 1 .. Len(b) PROVE d[1 + i] = b[i]
    OBVIOUS
  <2>1. 1 + i \in 1 .. 1 + Len(b) /\ ~(1 + i <= 1) /\ (1 + i) - 1 = i
    BY <1>1
  <2> QED
    BY <1>3, <1>4, <1>5, <2>1
<1> QED
  BY <1>6, <1>7, <1>8 DEF d, b

LEMMA LowerUnit ==
    ASSUME NEW ou \in {People, Groups}
    PROVE  LowerDn(Unit(ou)) = Unit(ou)
<1> DEFINE d == Unit(ou)
           l == LowerDn(d)
           N == Len(BaseDn)
<1>1. /\ IsSeq(d) /\ Len(d) = N + 1 /\ d[1] = ou
      /\ \A i \in 1 .. N : d[1 + i] = BaseDn[i]
  BY UnitShape
<1> HIDE DEF d
<1>3. /\ IsSeq(l) /\ Len(l) = N + 1
      /\ \A i \in 1 .. N + 1 : l[i] = <<d[i][1], Lower(d[i][2])>>
  BY <1>1, LowerShape
<1> HIDE DEF l
<1>4. N \in Nat /\ \A i \in 1 .. N : <<BaseDn[i][1], Lower(BaseDn[i][2])>> = BaseDn[i]
  BY BaseLower
<1> HIDE DEF N
<1>6. l[1] = d[1]
  <2>1. <<ou[1], Lower(ou[2])>> = ou
    BY Units
  <2>2. 1 \in 1 .. N + 1
    BY <1>4
  <2>3. l[1] = <<d[1][1], Lower(d[1][2])>>
    BY <1>3, <2>2
  <2> QED
    BY <1>1, <2>1, <2>3
<1>7. \A i \in 1 .. N : l[1 + i] = d[1 + i]
  <2> SUFFICES ASSUME NEW i \in 1 .. N PROVE l[1 + i] = d[1 + i]
    OBVIOUS
  <2>1. 1 + i \in 1 .. N + 1
    BY <1>4
  <2> QED
    BY <1>1, <1>3, <1>4, <2>1
<1>8. \A k \in 1 .. N + 1 : l[k] = d[k]
  <2> SUFFICES ASSUME NEW k \in 1 .. N + 1 PROVE l[k] = d[k]
    OBVIOUS
  <2>1. k = 1 \/ (k - 1 \in 1 .. N /\ 1 + (k - 1) = k)
    BY <1>4
  <2> QED
    BY <1>6, <1>7, <2>1
<1> QED
  BY <1>1, <1>3, <1>8, SeqSame DEF l, d

LEMMA ReadUnit ==
    ASSUME NEW ou \in {People, Groups}
    PROVE  ReadDn(Unit(ou)) = Unit(ou) /\ Unit(ou) # <<>>
<1> DEFINE d == Unit(ou)
           p == ParseDn(d)
           none == <<>>
<1>1. IsSeq(d) /\ Len(d) = Len(BaseDn) + 1 /\ d[1] = ou
  BY UnitShape
<1>2. Len(BaseDn) \in Nat
  BY BaseLower
<1>3. Len(d) \in Nat /\ d # <<>>
  BY <1>1, <1>2
<1>4. ReadDn(d) = p
  BY LowerUnit DEF ReadDn
<1> HIDE DEF d
<1>5. ou = <<ou[1], ou[2]>> /\ ou[2] # NoText /\ Plain(ou[2])
  BY DnAssumption, Units DEF People, Groups, NoText
<1>6. none = ReadAs(ou[2]).more /\ ou[2] = ReadAs(ou[2]).value /\ Len(none) = 0 /\ IsSeq(none)
  <2>1. <<>> \in Seq({})
    OBVIOUS
  <2>2. IsSeq(<<>>)
    BY <2>1, SeqFromDomain
  <2> QED
    BY <1>5, <2>2 DEF ReadAs
<1> HIDE DEF none
<1>7. /\ IsSeq(p) /\ Len(p) = Len(d) + Len(none) /\ p[1] = <<d[1][1], ou[2]>>
      /\ \A k \in 2 .. Len(d) : p[Len(none) + k] = d[k]
  BY <1>1, <1>3, <1>5, <1>6, ParseShape
<1>8. Len(p) = Len(d) /\ \A k \in 2 .. Len(d) : p[k] = d[k]
  BY <1>3, <1>6, <1>7
<1>9. p[1] = d[1]
  BY <1>1, <1>5, <1>7
<1>10. \A k \in 1 .. Len(d) : k = 1 \/ k \in 2 .. Len(d)
  BY <1>3
<1>11. p = d
  <2> HIDE DEF p
  <2> QED
    BY <1>1, <1>7, <1>8, <1>9, <1>10, SeqSame
<1> QED
  BY <1>3, <1>4, <1>11 DEF d

LEMMA UnderUnit ==
    ASSUME NEW r, NEW n, NEW ou, NEW unit
    PROVE  IsSubtree(At(r, n, ou), Unit(unit)) <=> ou = unit
<1> DEFINE d == At(r, n, ou)
           e == Unit(unit)
           N == Len(BaseDn)
<1>1. /\ Len(d) = N + 2 /\ d[2] = ou
      /\ \A i \in 1 .. N : d[2 + i] = BaseDn[i]
  BY AtShape
<1>2. /\ Len(e) = N + 1 /\ e[1] = unit /\ DOMAIN e = 1 .. Len(e)
      /\ \A i \in 1 .. N : e[1 + i] = BaseDn[i]
  BY UnitShape, SeqShape
<1>3. N \in Nat
  BY BaseLower
<1> HIDE DEF d, e, N
<1>4. Len(e) <= Len(d) /\ Len(d) - Len(e) = 1
  BY <1>1, <1>2, <1>3
<1>5. IsSubtree(d, e) <=> \A k \in 1 .. N + 1 : d[1 + k] = e[k]
  BY <1>2, <1>4 DEF IsSubtree
<1>6. \A k \in 1 .. N + 1 : k = 1 \/ (k - 1 \in 1 .. N /\ k = 1 + (k - 1) /\ 1 + k = 2 + (k - 1))
  BY <1>3
<1>7. \A k \in 1 .. N + 1 : k # 1 => d[1 + k] = e[k]
  <2> SUFFICES ASSUME NEW k \in 1 .. N + 1, k # 1 PROVE d[1 + k] = e[k]
    OBVIOUS
  <2>1. k - 1 \in 1 .. N /\ k = 1 + (k - 1) /\ 1 + k = 2 + (k - 1)
    BY <1>6
  <2>2. d[2 + (k - 1)] = BaseDn[k - 1] /\ e[1 + (k - 1)] = BaseDn[k - 1]
    BY <1>1, <1>2, <2>1
  <2> QED
    BY <2>1, <2>2
<1>8. 1 \in 1 .. N + 1 /\ d[1 + 1] = ou
  BY <1>1, <1>3
<1>9. IsSubtree(d, e) <=> d[1 + 1] = e[1]
  BY <1>5, <1>7, <1>8
<1> QED
  BY <1>2, <1>8, <1>9 DEF d, e

LEMMA UnderAt ==
    ASSUME NEW r, NEW n, NEW ou, NEW t, NEW m, NEW unit
    PROVE  IsSubtree(At(r, n, ou), At(t, m, unit)) <=> (r = t /\ n = m /\ ou = unit)
<1> DEFINE d == At(r, n, ou)
           e == At(t, m, unit)
<1>1. IsSeq(d) /\ IsSeq(e) /\ Len(d) = Len(BaseDn) + 2 /\ Len(e) = Len(BaseDn) + 2
  BY AtShape
<1>2. r = t /\ n = m /\ ou = unit <=> d = e
  BY AtInjective
<1> HIDE DEF d, e
<1>3. Len(e) \in Nat /\ DOMAIN e = 1 .. Len(e) /\ Len(d) = Len(e)
  BY <1>1, SeqShape
<1>4. Len(e) <= Len(d) /\ \A i \in 1 .. Len(e) : Len(d) - Len(e) + i = i
  BY <1>3
<1>5. IsSubtree(d, e) <=> \A i \in 1 .. Len(e) : d[i] = e[i]
  BY <1>3, <1>4 DEF IsSubtree
<1>6. IsSubtree(d, e) <=> d = e
  BY <1>1, <1>3, <1>5, SeqSame
<1> QED
  BY <1>2, <1>6 DEF d, e

\* get_search_scope.
LEMMA ScopeOfUnit ==
    Scope(Unit(People), FALSE) = "Users" /\ Scope(Unit(Groups), FALSE) = "Groups"
<1>1. ASSUME NEW ou
      PROVE  IsSubtree(Unit(ou), BaseDn) /\ Len(Unit(ou)) - Len(BaseDn) = 1 /\ Unit(ou)[1] = ou
  <2> DEFINE d == Unit(ou)
  <2>1. /\ Len(d) = Len(BaseDn) + 1 /\ d[1] = ou
        /\ \A i \in 1 .. Len(BaseDn) : d[1 + i] = BaseDn[i]
    BY UnitShape
  <2>2. Len(BaseDn) \in Nat /\ DOMAIN BaseDn = 1 .. Len(BaseDn)
    BY BaseLower
  <2> HIDE DEF d
  <2>3. Len(BaseDn) <= Len(d) /\ Len(d) - Len(BaseDn) = 1
    BY <2>1, <2>2
  <2>4. IsSubtree(d, BaseDn)
    BY <2>1, <2>2, <2>3 DEF IsSubtree
  <2> QED
    BY <2>1, <2>3, <2>4 DEF d
<1> QED
  BY <1>1, Units DEF Scope

LEMMA ScopeOfAt ==
    ASSUME NEW r, NEW n
    PROVE  Scope(At(r, n, People), FALSE) = "User" /\ Scope(At(r, n, Groups), FALSE) = "Group"
<1>1. ASSUME NEW ou
      PROVE  /\ IsSubtree(At(r, n, ou), BaseDn) /\ Len(At(r, n, ou)) - Len(BaseDn) = 2
             /\ At(r, n, ou)[2] = ou
  <2>1. Len(At(r, n, ou)) = Len(BaseDn) + 2 /\ At(r, n, ou)[2] = ou
    BY AtShape
  <2>2. Len(BaseDn) \in Nat
    BY BaseLower
  <2> QED
    BY <2>1, <2>2, AtUnderBase
<1> QED
  BY <1>1, Units DEF Scope

UserEntry(u, s, fields) == [id |-> u, shown |-> [a \in fields |-> UserValues(db, u, a, s)]]
GroupEntry(g, i, s, fields) ==
    [id |-> g, shown |-> [a \in fields |-> GroupValues(db, g, a, s, UserFilter(i))]]

\* The entries of the lists, for a converted filter.
ListsUser(e, i, c, s, fields) ==
    /\ ~IsError(c)
    /\ \E u : /\ u \in UsersSelected(db, c)
              /\ i.permission = "Regular" => u = i.user
              /\ e = UserEntry(u, s, fields)

ListsGroup(e, i, c, s, fields) ==
    /\ ~IsError(c)
    /\ \E g : /\ g \in GroupsSelected(db, c)
              /\ i.permission = "Regular" => <<i.user, g>> \in db.members
              /\ e = GroupEntry(g, i, s, fields)

LEMMA UserListEntries ==
    ASSUME NEW i, NEW f, IsFilter(f), NEW s, NEW fields
    PROVE  /\ UserList(db, i, f, s, fields).ok <=> ~IsError(ConvertUserFilter(f, s))
           /\ \A e : e \in UserList(db, i, f, s, fields).entries <=>
                       ListsUser(e, i, ConvertUserFilter(f, s), s, fields)
<1> DEFINE c == ConvertUserFilter(f, s)
           l == UserList(db, i, f, s, fields)
<1>1. CASE IsError(c)
  <2>1. l = Refused
    BY <1>1 DEF UserList
  <2> QED
    BY <1>1, <2>1 DEF Refused, ListsUser
<1>2. CASE ~IsError(c)
  <2>1. l = [ok |-> TRUE, entries |->
              {UserEntry(u, s, fields) : u \in UsersSelected(db, Restricted(i, c, "UserId"))}]
    BY <1>2 DEF UserList, UserEntry
  <2>2. IsFor(c, UserOp)
    BY <1>2, ConvertedUser
  <2> HIDE DEF c, l
  <2>3. \A u : u \in UsersSelected(db, Restricted(i, c, "UserId")) <=>
                  u \in UsersSelected(db, c) /\ (i.permission = "Regular" => u = i.user)
    BY <2>2, RestrictedUsers
  <2>4. l.ok /\ l.entries = {UserEntry(u, s, fields) :
                               u \in UsersSelected(db, Restricted(i, c, "UserId"))}
    BY <2>1
  <2> QED
    BY <1>2, <2>3, <2>4 DEF c, l, ListsUser
<1> QED
  BY <1>1, <1>2

LEMMA GroupListEntries ==
    ASSUME NEW i, NEW f, IsFilter(f), NEW s, NEW fields
    PROVE  /\ GroupList(db, i, f, s, fields).ok <=> ~IsError(ConvertGroupFilter(f, s))
           /\ \A e : e \in GroupList(db, i, f, s, fields).entries <=>
                       ListsGroup(e, i, ConvertGroupFilter(f, s), s, fields)
<1> DEFINE c == ConvertGroupFilter(f, s)
           l == GroupList(db, i, f, s, fields)
<1>1. CASE IsError(c)
  <2>1. l = Refused
    BY <1>1 DEF GroupList
  <2> QED
    BY <1>1, <2>1 DEF Refused, ListsGroup
<1>2. CASE ~IsError(c)
  <2>1. l = [ok |-> TRUE, entries |->
              {GroupEntry(g, i, s, fields) : g \in GroupsSelected(db, Restricted(i, c, "Member"))}]
    BY <1>2 DEF GroupList, GroupEntry
  <2>2. IsFor(c, GroupOp)
    BY <1>2, ConvertedGroup
  <2> HIDE DEF c, l
  <2>3. \A g : g \in GroupsSelected(db, Restricted(i, c, "Member")) <=>
                  g \in GroupsSelected(db, c)
                  /\ (i.permission = "Regular" => <<i.user, g>> \in db.members)
    BY <2>2, RestrictedGroups
  <2>4. l.ok /\ l.entries = {GroupEntry(g, i, s, fields) :
                               g \in GroupsSelected(db, Restricted(i, c, "Member"))}
    BY <2>1
  <2> QED
    BY <1>2, <2>3, <2>4 DEF c, l, ListsGroup
<1> QED
  BY <1>1, <1>2

\* Where the entries of the lists are in the tree.
LEMMA UserPlace ==
    ASSUME TablesOK, NEW i, NEW f, IsFilter(f), NEW s, NEW fields,
           NEW e \in UserList(db, i, f, s, fields).entries
    PROVE  e.id \in db.users /\ e.id \in UserId /\ EntryDn(e.id) = At("uid", e.id, People)
<1>0. ListsUser(e, i, ConvertUserFilter(f, s), s, fields)
  BY UserListEntries
<1>1. PICK u : u \in UsersSelected(db, ConvertUserFilter(f, s)) /\ e = UserEntry(u, s, fields)
  BY <1>0 DEF ListsUser
<1>2. e.id = u
  BY <1>1 DEF UserEntry
<1>3. u \in db.users /\ u \in UserId
  BY <1>1 DEF UsersSelected, TablesOK, TablesTyped, Tables
<1> QED
  BY <1>2, <1>3 DEF EntryDn, UserDn, At

LEMMA GroupPlace ==
    ASSUME NEW i, NEW f, IsFilter(f), NEW s, NEW fields,
           NEW e \in GroupList(db, i, f, s, fields).entries
    PROVE  e.id \in GroupId /\ EntryDn(e.id) = At("cn", Lower(db.group[e.id]), Groups)
<1>0. ListsGroup(e, i, ConvertGroupFilter(f, s), s, fields)
  BY GroupListEntries
<1>1. PICK g : g \in GroupsSelected(db, ConvertGroupFilter(f, s)) /\ e = GroupEntry(g, i, s, fields)
  BY <1>0 DEF ListsGroup
<1>2. e.id = g
  BY <1>1 DEF GroupEntry
<1>3. g \in GroupId /\ g \notin UserId
  BY <1>1, FiltersAssumption DEF GroupsSelected
<1>4. EntryDn(g) = LowerDn(At("cn", db.group[g], Groups))
  BY <1>3 DEF EntryDn, GroupDn, At
<1> QED
  BY <1>2, <1>3, <1>4, LowerAt

\* Both lists of a search, for a caller and a filter, where they do not fail.
UserSide(i, f, failing) ==
    IF "users" \in failing THEN Refused ELSE UserList(db, i, f, GetSchema(db, i), {})
GroupSide(i, f, failing) ==
    IF "groups" \in failing THEN Refused ELSE GroupList(db, i, f, GetSchema(db, i), {})
Everything(i, f, failing) == UserSide(i, f, failing).entries \cup GroupSide(i, f, failing).entries

LEMMA SidePlaces ==
    ASSUME TablesOK, NEW i, NEW f, IsFilter(f), NEW failing
    PROVE  /\ \A e \in UserSide(i, f, failing).entries : EntryDn(e.id) = At("uid", e.id, People)
           /\ \A e \in GroupSide(i, f, failing).entries :
                 EntryDn(e.id) = At("cn", Lower(db.group[e.id]), Groups)
<1>1. Refused.entries = {}
  BY DEF Refused
<1>2. \A e \in UserSide(i, f, failing).entries :
         e \in UserList(db, i, f, GetSchema(db, i), {}).entries
  BY <1>1 DEF UserSide
<1>3. \A e \in GroupSide(i, f, failing).entries :
         e \in GroupList(db, i, f, GetSchema(db, i), {}).entries
  BY <1>1 DEF GroupSide
<1>4. \A e \in UserList(db, i, f, GetSchema(db, i), {}).entries :
         EntryDn(e.id) = At("uid", e.id, People)
  BY UserPlace
<1>5. \A e \in GroupList(db, i, f, GetSchema(db, i), {}).entries :
         EntryDn(e.id) = At("cn", Lower(db.group[e.id]), Groups)
  BY GroupPlace
<1> QED
  BY <1>2, <1>3, <1>4, <1>5

LEMMA SearchOfEverything ==
    ASSUME NEW i, NEW f, IsFilter(f), NEW failing
    PROVE  SearchNow(i, BaseDn, f, {}, failing).entries = Everything(i, f, failing)
<1> DEFINE us == UserSide(i, f, failing)
           gs == GroupSide(i, f, failing)
<1>1. us.ok \/ us.entries = {}
  BY UserListEntries DEF ListsUser, UserSide, Refused
<1>2. gs.ok \/ gs.entries = {}
  BY GroupListEntries DEF ListsGroup, GroupSide, Refused
<1>3. SearchNow(i, BaseDn, f, {}, failing) = Answer("Global", us, gs)
  BY SearchFromBase DEF UserSide, GroupSide
<1> HIDE DEF us, gs
<1>4. Answer("Global", us, gs).entries = us.entries \cup gs.entries
  BY <1>1, <1>2 DEF Answer, Refused
<1> QED
  BY <1>3, <1>4 DEF Everything, us, gs

InSubtree(i, f, failing, d) == {e \in Everything(i, f, failing) : IsSubtree(EntryDn(e.id), d)}

LEMMA PeopleSubtree ==
    ASSUME TablesOK, NEW i, NEW f, IsFilter(f), NEW failing,
           SearchNow(i, Unit(People), f, {}, failing).ok
    PROVE  SearchNow(i, Unit(People), f, {}, failing).entries =
              InSubtree(i, f, failing, Unit(People))
<1> DEFINE us == UserSide(i, f, failing)
           gs == GroupSide(i, f, failing)
<1>1. /\ ReadDn(Unit(People)) = Unit(People) /\ Unit(People) # <<>>
      /\ Scope(Unit(People), FALSE) = "Users"
  BY ReadUnit, ScopeOfUnit
<1>2. SearchNow(i, Unit(People), f, {}, failing) = Answer("Users", us, NoEntries)
  <2>1. /\ Scoped(Unit(People), f, "Users") = f
        /\ ListsUsers("Users") /\ ~ListsGroups("Users")
    BY DEF Scoped, ListsUsers, ListsGroups
  <2> QED
    BY <1>1, <2>1 DEF SearchNow, UserPart, GroupPart, UserSide
<1>4. \A e \in us.entries : IsSubtree(EntryDn(e.id), Unit(People))
  BY SidePlaces, UnderUnit
<1>5. \A e \in gs.entries : ~IsSubtree(EntryDn(e.id), Unit(People))
  BY SidePlaces, UnderUnit, Units
<1> HIDE DEF us, gs
<1>6. Answer("Users", us, NoEntries).entries = us.entries
  BY <1>2 DEF Answer, NoEntries, Refused
<1>7. Everything(i, f, failing) = us.entries \cup gs.entries
  BY DEF Everything, us, gs
<1> QED
  BY <1>2, <1>4, <1>5, <1>6, <1>7 DEF InSubtree

LEMMA GroupsSubtree ==
    ASSUME TablesOK, NEW i, NEW f, IsFilter(f), NEW failing,
           SearchNow(i, Unit(Groups), f, {}, failing).ok
    PROVE  SearchNow(i, Unit(Groups), f, {}, failing).entries =
              InSubtree(i, f, failing, Unit(Groups))
<1> DEFINE us == UserSide(i, f, failing)
           gs == GroupSide(i, f, failing)
<1>1. /\ ReadDn(Unit(Groups)) = Unit(Groups) /\ Unit(Groups) # <<>>
      /\ Scope(Unit(Groups), FALSE) = "Groups"
  BY ReadUnit, ScopeOfUnit
<1>2. SearchNow(i, Unit(Groups), f, {}, failing) = Answer("Groups", NoEntries, gs)
  <2>1. /\ Scoped(Unit(Groups), f, "Groups") = f
        /\ ~ListsUsers("Groups") /\ ListsGroups("Groups")
    BY DEF Scoped, ListsUsers, ListsGroups
  <2> QED
    BY <1>1, <2>1 DEF SearchNow, UserPart, GroupPart, GroupSide
<1>4. \A e \in us.entries : ~IsSubtree(EntryDn(e.id), Unit(Groups))
  BY SidePlaces, UnderUnit, Units
<1>5. \A e \in gs.entries : IsSubtree(EntryDn(e.id), Unit(Groups))
  BY SidePlaces, UnderUnit
<1> HIDE DEF us, gs
<1>6. Answer("Groups", NoEntries, gs).entries = gs.entries
  BY <1>2 DEF Answer, NoEntries, Refused
<1>7. Everything(i, f, failing) = us.entries \cup gs.entries
  BY DEF Everything, us, gs
<1> QED
  BY <1>2, <1>4, <1>5, <1>6, <1>7 DEF InSubtree

\* A search from a DN that cannot be read is refused; one from a DN that is too
\* long for an entry finds nothing, and there is nothing.
LEMMA UnreadSubtree ==
    ASSUME NEW i, NEW f, NEW failing, NEW b, ReadDn(b) = <<>>
    PROVE  ~SearchNow(i, b, f, {}, failing).ok
BY DEF SearchNow, Refused

LEMMA LongSubtree ==
    ASSUME TablesOK, NEW i, NEW f, IsFilter(f), NEW failing, NEW b,
           IsSeq(ReadDn(b)), Len(ReadDn(b)) > Len(BaseDn) + 2, IsSubtree(ReadDn(b), BaseDn)
    PROVE  SearchNow(i, b, f, {}, failing).entries = InSubtree(i, f, failing, ReadDn(b))
<1> DEFINE d == ReadDn(b)
           N == Len(BaseDn)
<1>1. N \in Nat /\ Len(d) \in Nat
  BY BaseLower, SeqShape
<1>2. /\ d # <<>> /\ Len(d) - N # 0 /\ Len(d) - N # 1 /\ Len(d) - N # 2
  BY <1>1
<1> HIDE DEF d
<1>3. Scope(d, FALSE) = "Unknown"
  BY <1>2 DEF Scope, d
<1>4. SearchNow(i, b, f, {}, failing) = Answer("Unknown", NoEntries, NoEntries)
  BY <1>2, <1>3 DEF SearchNow, UserPart, GroupPart, ListsUsers, ListsGroups, d
<1>5. SearchNow(i, b, f, {}, failing).entries = {}
  BY <1>4 DEF Answer, NoEntries, Refused
<1>6. \A r, n, ou : ~IsSubtree(At(r, n, ou), d)
  <2> SUFFICES ASSUME NEW r, NEW n, NEW ou PROVE ~IsSubtree(At(r, n, ou), d)
    OBVIOUS
  <2>1. Len(At(r, n, ou)) = N + 2
    BY AtShape
  <2>2. ~(Len(d) <= Len(At(r, n, ou)))
    BY <1>1, <2>1 DEF d
  <2> QED
    BY <2>2 DEF IsSubtree
<1>7. InSubtree(i, f, failing, d) = {}
  <2>1. \A e \in UserSide(i, f, failing).entries : ~IsSubtree(EntryDn(e.id), d)
    BY <1>6, SidePlaces
  <2>2. \A e \in GroupSide(i, f, failing).entries : ~IsSubtree(EntryDn(e.id), d)
    BY <1>6, SidePlaces
  <2> QED
    BY <2>1, <2>2 DEF InSubtree, Everything
<1> QED
  BY <1>5, <1>7 DEF d

\* The leaf that a search from an entry adds selects that entry.
LEMMA UidNode ==
    ASSUME NEW u, Lower(u) = u, NEW s
    PROVE  UserNode(Leaf("Equality", "uid", Text(u)), s) = Leaf("UserId", "", u)
<1> DEFINE p == Leaf("Equality", "uid", Text(u))
<1>1. p.op = "Equality" /\ p.field = "uid" /\ p.v.text = u
  BY DEF Leaf, Text
<1> HIDE DEF p
<1>2. UserNode(p, s) = UserEquality("uid", LowerValue(p.v), s)
  BY <1>1 DEF UserNode, Connective
<1>3. LowerValue(p.v).text = u
  BY <1>1 DEF LowerValue
<1>4. MapUserField("uid", s) = "UserId"
  BY DEF MapUserField, UserFieldType
<1> QED
  BY <1>2, <1>3, <1>4 DEF UserEquality, p

LEMMA CnNode ==
    ASSUME NEW n, Lower(n) = n, NEW s
    PROVE  GroupNode(Leaf("Equality", "cn", Text(n)), s) = Leaf("DisplayName", "", n)
<1> DEFINE p == Leaf("Equality", "cn", Text(n))
<1>1. p.op = "Equality" /\ p.field = "cn" /\ p.v.text = n
  BY DEF Leaf, Text
<1> HIDE DEF p
<1>2. GroupNode(p, s) = GroupEquality("cn", LowerValue(p.v), s)
  BY <1>1 DEF GroupNode, Connective
<1>3. LowerValue(p.v).text = n
  BY <1>1 DEF LowerValue
<1>4. MapGroupField("cn", s) = "DisplayName"
  BY DEF MapGroupField, GroupFieldType
<1> QED
  BY <1>2, <1>3, <1>4 DEF GroupEquality, p

LEMMA UserSubtree ==
    ASSUME TablesOK, NEW i, NEW f, IsFilter(f), NEW failing, NEW b, NEW u, Lower(u) = u,
           ReadDn(b) = At("uid", u, People), SearchNow(i, b, f, {}, failing).ok
    PROVE  SearchNow(i, b, f, {}, failing).entries = InSubtree(i, f, failing, ReadDn(b))
<1> DEFINE s == GetSchema(db, i)
           d == At("uid", u, People)
           p == Leaf("Equality", "uid", Text(u))
           q == Leaf("UserId", "", u)
           h == Both(f, p)
           us == UserList(db, i, f, s, {})
           gs == GroupSide(i, f, failing)
           part == UserList(db, i, h, s, {})
           c == ConvertUserFilter(f, s)
           l == ConvertUserFilter(h, s)
<1>1. d # <<>>
  BY AtShape, BaseLower
<1>2. Scope(d, FALSE) = "User" /\ d[1] = <<"uid", u>>
  <2>1. Scope(d, FALSE) = "User"
    BY ScopeOfAt
  <2>2. d[1] = <<"uid", u>>
    BY AtShape
  <2> QED
    BY <2>1, <2>2
<1>3. d[1][1] = "uid" /\ d[1][2] = u
  BY <1>2
<1> HIDE DEF d, s
<1>4. /\ "users" \notin failing
      /\ SearchNow(i, b, f, {}, failing) = Answer("User", part, NoEntries)
  <2>1. Scoped(d, f, "User") = h
    BY <1>3 DEF Scoped
  <2>2. ListsUsers("User") /\ ~ListsGroups("User")
    BY DEF ListsUsers, ListsGroups
  <2> HIDE DEF h, p
  <2> DEFINE us2 == IF "users" \in failing THEN Refused ELSE part
  <2>3. SearchNow(i, b, f, {}, failing) = Answer("User", us2, NoEntries)
    BY <1>1, <1>2, <2>1, <2>2 DEF SearchNow, UserPart, GroupPart, s, d
  <2>4. us2.ok
    <3> HIDE DEF us2
    <3> QED
      BY <2>3 DEF Answer, Refused
  <2> QED
    BY <2>3, <2>4 DEF Refused
<1>5. /\ p.op = "Equality" /\ p.of = {}
      /\ q.op = "UserId" /\ q.of = {} /\ q.v = u
  BY DEF Leaf
<1>6. UserNode(p, s) = q
  BY UidNode
<1> HIDE DEF p, q
<1>7. IsLeaf(p) /\ IsLeaf(q) /\ q.op # "Error" /\ q.op \in UserOp
  BY <1>5 DEF IsLeaf, Connective, UserOp
<1>8. (IsError(l) <=> IsError(c)) /\ (~IsError(c) => l = Both(c, q))
  BY <1>6, <1>7, ConvertBothUser
<1>9. IsFilter(h)
  BY <1>7, BothShape
<1>10. /\ part.ok <=> ~IsError(l)
       /\ \A e : e \in part.entries <=> ListsUser(e, i, l, s, {})
  BY <1>9, UserListEntries
<1>11. \A e : e \in us.entries <=> ListsUser(e, i, c, s, {})
  BY UserListEntries
<1>12. ASSUME NEW e \in us.entries
       PROVE  IsSubtree(EntryDn(e.id), d) <=> e.id = u
  BY <1>12, UserPlace, UnderAt DEF d
<1>13. ASSUME NEW e \in gs.entries
       PROVE  ~IsSubtree(EntryDn(e.id), d)
  <2>1. EntryDn(e.id) = At("cn", Lower(db.group[e.id]), Groups)
    BY <1>13, SidePlaces
  <2> QED
    BY <2>1, UnderAt, Units DEF d
<1>14. ASSUME ~IsError(c)
       PROVE  \A x : x \in UsersSelected(db, l) <=> x \in UsersSelected(db, c) /\ x = u
  <2>1. IsFor(c, UserOp)
    BY <1>14, ConvertedUser
  <2> HIDE DEF c, l
  <2> SUFFICES ASSUME NEW x
               PROVE  x \in UsersSelected(db, l) <=> x \in UsersSelected(db, c) /\ x = u
    OBVIOUS
  <2>2. (UserCondition(db, x, Both(c, q)) = "T") <=>
           (UserCondition(db, x, c) = "T" /\ UserAtom(db, x, q) = "T")
    BY <1>7, <2>1, BothUser
  <2>3. UserAtom(db, x, q) = Bool(x = u)
    BY <1>5 DEF UserAtom
  <2>4. UserAtom(db, x, q) = "T" <=> x = u
    BY <2>3 DEF Bool
  <2> QED
    BY <1>8, <1>14, <2>2, <2>4 DEF UsersSelected
<1> HIDE DEF us, gs, part, c, l
<1>15. part.ok /\ Answer("User", part, NoEntries).entries = part.entries
  BY <1>4 DEF Answer, NoEntries, Refused
<1>16. ~IsError(l) /\ ~IsError(c)
  BY <1>8, <1>10, <1>15
<1>17. \A x : UserEntry(x, s, {}).id = x
  BY DEF UserEntry
<1>18. ASSUME NEW e
       PROVE  e \in part.entries <=> e \in us.entries /\ e.id = u
  BY <1>10, <1>11, <1>14, <1>16, <1>17 DEF ListsUser
<1>19. Everything(i, f, failing) = us.entries \cup gs.entries
  BY <1>4 DEF Everything, UserSide, us, gs, s
<1>20. part.entries = InSubtree(i, f, failing, d)
  BY <1>12, <1>13, <1>18, <1>19 DEF InSubtree
<1> QED
  BY <1>4, <1>15, <1>20 DEF d

LEMMA GroupSubtree ==
    ASSUME TablesOK, NEW i, NEW f, IsFilter(f), NEW failing, NEW b, NEW m, Lower(m) = m,
           ReadDn(b) = At("cn", m, Groups), SearchNow(i, b, f, {}, failing).ok
    PROVE  SearchNow(i, b, f, {}, failing).entries = InSubtree(i, f, failing, ReadDn(b))
<1> DEFINE s == GetSchema(db, i)
           d == At("cn", m, Groups)
           p == Leaf("Equality", "cn", Text(m))
           q == Leaf("DisplayName", "", m)
           h == Both(f, p)
           us == UserSide(i, f, failing)
           gs == GroupList(db, i, f, s, {})
           part == GroupList(db, i, h, s, {})
           c == ConvertGroupFilter(f, s)
           l == ConvertGroupFilter(h, s)
<1>1. d # <<>>
  BY AtShape, BaseLower
<1>2. Scope(d, FALSE) = "Group" /\ d[1] = <<"cn", m>>
  <2>1. Scope(d, FALSE) = "Group"
    BY ScopeOfAt
  <2>2. d[1] = <<"cn", m>>
    BY AtShape
  <2> QED
    BY <2>1, <2>2
<1>3. d[1][1] = "cn" /\ d[1][2] = m
  BY <1>2
<1>6. GroupNode(p, s) = q
  BY CnNode
<1> HIDE DEF d, s
<1>4. /\ "groups" \notin failing
      /\ SearchNow(i, b, f, {}, failing) = Answer("Group", NoEntries, part)
  <2>1. Scoped(d, f, "Group") = h
    BY <1>3 DEF Scoped
  <2>2. ~ListsUsers("Group") /\ ListsGroups("Group")
    BY DEF ListsUsers, ListsGroups
  <2> HIDE DEF h, p
  <2> DEFINE gs2 == IF "groups" \in failing THEN Refused ELSE part
  <2>3. SearchNow(i, b, f, {}, failing) = Answer("Group", NoEntries, gs2)
    BY <1>1, <1>2, <2>1, <2>2 DEF SearchNow, UserPart, GroupPart, s, d
  <2>4. gs2.ok
    <3> HIDE DEF gs2
    <3> QED
      BY <2>3 DEF Answer, Refused
  <2> QED
    BY <2>3, <2>4 DEF Refused
<1>5. /\ p.op = "Equality" /\ p.of = {}
      /\ q.op = "DisplayName" /\ q.of = {} /\ q.v = m
  BY DEF Leaf
<1> HIDE DEF p, q
<1>7. IsLeaf(p) /\ IsLeaf(q) /\ q.op # "Error" /\ q.op \in GroupOp
  BY <1>5 DEF IsLeaf, Connective, GroupOp
<1>8. (IsError(l) <=> IsError(c)) /\ (~IsError(c) => l = Both(c, q))
  BY <1>6, <1>7, ConvertBothGroup
<1>9. IsFilter(h)
  BY <1>7, BothShape
<1>10. /\ part.ok <=> ~IsError(l)
       /\ \A e : e \in part.entries <=> ListsGroup(e, i, l, s, {})
  BY <1>9, GroupListEntries
<1>11. \A e : e \in gs.entries <=> ListsGroup(e, i, c, s, {})
  BY GroupListEntries
<1>12. ASSUME NEW e \in gs.entries
       PROVE  IsSubtree(EntryDn(e.id), d) <=> Lower(db.group[e.id]) = m
  <2>1. EntryDn(e.id) = At("cn", Lower(db.group[e.id]), Groups)
    BY <1>12, GroupPlace
  <2> QED
    BY <2>1, UnderAt DEF d
<1>13. ASSUME NEW e \in us.entries
       PROVE  ~IsSubtree(EntryDn(e.id), d)
  <2>1. EntryDn(e.id) = At("uid", e.id, People)
    BY <1>13, SidePlaces
  <2> QED
    BY <2>1, UnderAt, Units DEF d
<1>14. ASSUME ~IsError(c)
       PROVE  \A x : x \in GroupsSelected(db, l) <=>
                        x \in GroupsSelected(db, c) /\ Lower(db.group[x]) = m
  <2>1. IsFor(c, GroupOp)
    BY <1>14, ConvertedGroup
  <2> HIDE DEF c, l
  <2> SUFFICES ASSUME NEW x
               PROVE  x \in GroupsSelected(db, l) <=>
                         x \in GroupsSelected(db, c) /\ Lower(db.group[x]) = m
    OBVIOUS
  <2>2. (GroupCondition(db, x, Both(c, q)) = "T") <=>
           (GroupCondition(db, x, c) = "T" /\ GroupAtom(db, x, q) = "T")
    BY <1>7, <2>1, BothGroup
  <2>3. GroupAtom(db, x, q) = Bool(Lower(db.group[x]) = m)
    BY <1>5 DEF GroupAtom
  <2>4. GroupAtom(db, x, q) = "T" <=> Lower(db.group[x]) = m
    BY <2>3 DEF Bool
  <2> QED
    BY <1>8, <1>14, <2>2, <2>4 DEF GroupsSelected
<1> HIDE DEF us, gs, part, c, l
<1>15. part.ok /\ Answer("Group", NoEntries, part).entries = part.entries
  BY <1>4 DEF Answer, NoEntries, Refused
<1>16. ~IsError(l) /\ ~IsError(c)
  BY <1>8, <1>10, <1>15
<1>17. \A x : GroupEntry(x, i, s, {}).id = x
  BY DEF GroupEntry
<1>18. ASSUME NEW e
       PROVE  e \in part.entries <=> e \in gs.entries /\ Lower(db.group[e.id]) = m
  <2>1. ASSUME e \in part.entries
        PROVE  e \in gs.entries /\ Lower(db.group[e.id]) = m
    <3>1. PICK x : /\ x \in GroupsSelected(db, l)
                   /\ i.permission = "Regular" => <<i.user, x>> \in db.members
                   /\ e = GroupEntry(x, i, s, {})
      BY <1>10, <2>1 DEF ListsGroup
    <3>2. x \in GroupsSelected(db, c) /\ Lower(db.group[x]) = m
      BY <1>14, <1>16, <3>1
    <3>3. ListsGroup(e, i, c, s, {})
      BY <1>16, <3>1, <3>2 DEF ListsGroup
    <3>4. e.id = x
      BY <1>17, <3>1
    <3> QED
      BY <1>11, <3>2, <3>3, <3>4
  <2>2. ASSUME e \in gs.entries, Lower(db.group[e.id]) = m
        PROVE  e \in part.entries
    <3>1. PICK x : /\ x \in GroupsSelected(db, c)
                   /\ i.permission = "Regular" => <<i.user, x>> \in db.members
                   /\ e = GroupEntry(x, i, s, {})
      BY <1>11, <2>2 DEF ListsGroup
    <3>2. e.id = x
      BY <1>17, <3>1
    <3>3. x \in GroupsSelected(db, l)
      BY <1>14, <1>16, <2>2, <3>1, <3>2
    <3>4. ListsGroup(e, i, l, s, {})
      BY <1>16, <3>1, <3>3 DEF ListsGroup
    <3> QED
      BY <1>10, <3>4
  <2> QED
    BY <2>1, <2>2
<1>19. Everything(i, f, failing) = us.entries \cup gs.entries
  BY <1>4 DEF Everything, GroupSide, us, gs, s
<1>20. part.entries = InSubtree(i, f, failing, d)
  BY <1>12, <1>13, <1>18, <1>19 DEF InSubtree
<1> QED
  BY <1>4, <1>15, <1>20 DEF d

LEMMA EntrySubtree ==
    ASSUME TablesOK, NEW i, NEW f, IsFilter(f), NEW failing, NEW n, n \notin {"dn", "pattern"},
           NEW b \in {At("uid", n, People), At("cn", n, Groups)},
           SearchNow(i, b, f, {}, failing).ok
    PROVE  SearchNow(i, b, f, {}, failing).entries = InSubtree(i, f, failing, ReadDn(b))
<1> DEFINE d == ReadDn(b)
<1>1. CASE d = <<>>
  BY <1>1, UnreadSubtree
<1>2. CASE IsSeq(d) /\ Len(d) > Len(BaseDn) + 2 /\ IsSubtree(d, BaseDn)
  BY <1>2, LongSubtree
<1>3. CASE \E w : Lower(w) = w /\ d = At("uid", w, People)
  BY <1>3, UserSubtree
<1>4. CASE \E w : Lower(w) = w /\ d = At("cn", w, Groups)
  BY <1>4, GroupSubtree
<1>5. IsRead(d, "uid", People) \/ IsRead(d, "cn", Groups)
  BY ReadAt
<1> HIDE DEF d
<1> QED
  BY <1>1, <1>2, <1>3, <1>4, <1>5 DEF IsRead

\* get_search_scope and do_search_internal: the search of a subtree answers
\* with exactly the entries that the search from the base DN finds in it, also
\* when the latter puts up with an error of one of its sides, of the filter or
\* of the database.
THEOREM SubtreesAgree == Spec => []SubtreeConsistent
<1>1. ASSUME IInv
      PROVE  SubtreeConsistent
  <2> SUFFICES ASSUME NEW i \in Caller, NEW f \in LdapFilter,
                      NEW failing \in SUBSET {"users", "groups"}, NEW d \in Bases,
                      SearchNow(i, d, f, {}, failing).ok
               PROVE  SearchNow(i, d, f, {}, failing).entries =
                         {e \in SearchNow(i, BaseDn, f, {}, failing).entries :
                             IsSubtree(EntryDn(e.id), ReadDn(d))}
    BY DEF SubtreeConsistent
  <2>1. TablesOK /\ IsFilter(f)
    BY <1>1, SearchAssumption DEF IInv, TablesOK
  <2>2. SearchNow(i, BaseDn, f, {}, failing).entries = Everything(i, f, failing)
    BY <2>1, SearchOfEverything
  <2>3. SearchNow(i, d, f, {}, failing).entries = InSubtree(i, f, failing, ReadDn(d))
    <3>1. CASE d = Unit(People)
      BY <2>1, <3>1, PeopleSubtree, ReadUnit
    <3>2. CASE d = Unit(Groups)
      BY <2>1, <3>2, GroupsSubtree, ReadUnit
    <3>3. CASE \E u \in UserId : d = UserDn(u)
      <4>1. PICK u \in UserId : d = At("uid", u, People)
        BY <3>3 DEF UserDn, At
      <4>2. u \notin {"dn", "pattern"}
        BY TextAssumption DEF Canonical, Marks
      <4> QED
        BY <2>1, <4>1, <4>2, EntrySubtree
    <3>4. CASE \E n \in GroupName : d = GroupDn(n)
      <4>1. PICK n \in GroupName : d = At("cn", n, Groups)
        BY <3>4 DEF GroupDn, At
      <4>2. n \notin {"dn", "pattern"}
        BY SearchAssumption DEF Marks
      <4> QED
        BY <2>1, <4>1, <4>2, EntrySubtree
    <3> QED
      BY <3>1, <3>2, <3>3, <3>4 DEF Bases, Unit
  <2> QED
    BY <2>2, <2>3 DEF InSubtree
<1> QED
  BY <1>1, Invariance, PTL

-----------------------------------------------------------------------------
(* What the comparisons of a filter mean.                                   *)

MatchesAny(v, K) == ReadValue(v) \in {LowerValue(k) : k \in K}

LEMMA LowerValueFields ==
    ASSUME NEW v
    PROVE  /\ LowerValue(v).text = Lower(v.text) /\ LowerValue(v).dn = LowerDn(v.dn)
           /\ LowerValue(v).like = v.like
BY DEF LowerValue

LEMMA SameLowerValue ==
    ASSUME NEW v, NEW w
    PROVE  ReadValue(v) = LowerValue(w) <=>
              (Lower(v.text) = Lower(w.text) /\ ReadDn(v.dn) = LowerDn(w.dn) /\ v.like = w.like)
BY DEF ReadValue, LowerValue

LEMMA ReadNone == LowerDn(<<>>) = <<>> /\ ReadDn(<<>>) = <<>>
<1> DEFINE none == <<>>
<1>1. none \in Seq({}) /\ Len(none) = 0
  OBVIOUS
<1>2. IsSeq(none)
  BY <1>1, SeqFromDomain
<1>3. IsSeq(LowerDn(none)) /\ Len(LowerDn(none)) = 0
  BY <1>1, <1>2, LowerShape
<1>4. LowerDn(none) = <<>>
  BY <1>3, EmptySeq DEF IsSeq
<1> QED
  BY <1>4 DEF ReadDn, ParseDn

LEMMA ValueKinds ==
    ASSUME NEW v, IsValue(v)
    PROVE  \/ v.dn = <<>> /\ v.like = {}
           \/ v.text = "dn" /\ v.like = {}
           \/ v.text = "pattern" /\ v.dn = <<>>
BY DEF IsValue, Text, Dn, Pattern

\* Two texts are the same up to case.
LEMMA TextMatch ==
    ASSUME NEW v, IsValue(v), NEW t, t \notin Marks
    PROVE  ReadValue(v) = LowerValue(Text(t)) <=> Lower(v.text) = Lower(t)
<1>1. Lower(t) \notin Marks /\ Lower("dn") = "dn" /\ Lower("pattern") = "pattern"
  BY LowerFacts DEF Marks
<1>2. v.text # "dn" /\ v.text # "pattern" => v.dn = <<>> /\ v.like = {}
  BY ValueKinds
<1>3. ReadValue(v) = LowerValue(Text(t)) <=>
         (Lower(v.text) = Lower(t) /\ ReadDn(v.dn) = LowerDn(<<>>) /\ v.like = {})
  BY SameLowerValue, TextFields
<1>4. ReadDn(<<>>) = LowerDn(<<>>)
  BY ReadNone
<1> QED
  BY <1>1, <1>2, <1>3, <1>4 DEF Marks

LEMMA MatchesText ==
    ASSUME NEW v, IsValue(v), NEW t, t \notin Marks
    PROVE  MatchesAny(v, {Text(t)}) <=> Lower(v.text) = Lower(t)
<1>1. MatchesAny(v, {Text(t)}) <=> ReadValue(v) = LowerValue(Text(t))
  BY DEF MatchesAny
<1> QED
  BY <1>1, TextMatch

LEMMA MatchesTexts ==
    ASSUME NEW v, IsValue(v), NEW T, T \cap Marks = {}
    PROVE  MatchesAny(v, {Text(t) : t \in T}) <=> \E t \in T : Lower(v.text) = Lower(t)
<1>1. MatchesAny(v, {Text(t) : t \in T}) <=> \E t \in T : ReadValue(v) = LowerValue(Text(t))
  BY DEF MatchesAny
<1>2. \A t \in T : ReadValue(v) = LowerValue(Text(t)) <=> Lower(v.text) = Lower(t)
  BY TextMatch
<1> QED
  BY <1>1, <1>2

LEMMA IdIsLower ==
    ASSUME NEW w, IsSeq(w), NEW ou
    PROVE  Lower(IdFromDn(LowerDn(w), ou)) = IdFromDn(LowerDn(w), ou)
<1> DEFINE d == ReadDn(w)
<1>0. IdFromDn(LowerDn(w), ou) = IdOf(d, ou)
  BY IdOfRead
<1>1. CASE IdOf(d, ou) = NoText
  BY <1>0, <1>1, LowerFacts DEF Marks
<1>2. CASE IdOf(d, ou) # NoText
  <2>1. d # <<>>
    BY <1>2, IdOfNothing
  <2>2. IdOf(d, ou) = d[1][2]
    BY <1>2 DEF IdOf
  <2>3. Lower(d[1][2]) = d[1][2]
    BY <2>1, ReadShape
  <2> QED
    BY <1>0, <2>2, <2>3
<1> QED
  BY <1>1, <1>2

\* A DN, as it is read, names an entry of a unit, in either form and up to case,
\* if the id that is taken from it is the name of the entry.
LEMMA MatchesForm ==
    ASSUME NEW v, IsValue(v), NEW n, NEW ou \in {People, Groups},
           Lower(n) # NoText \/ IdFromDn(LowerDn(v.dn), ou) # NoText
    PROVE  MatchesAny(v, EitherForm(n, ou)) <=> IdFromDn(LowerDn(v.dn), ou) = Lower(n)
<1> DEFINE d == ReadDn(v.dn)
           id == IdOf(d, ou)
<1>0. IsSeq(v.dn) /\ IdFromDn(LowerDn(v.dn), ou) = id
  BY IdOfRead DEF IsValue
<1>1. MatchesAny(v, EitherForm(n, ou)) <=>
         \E r \in {"cn", "uid"} : ReadValue(v) = LowerValue(Dn(At(r, n, ou)))
  BY DEF MatchesAny, EitherForm, At
<1>2. ASSUME NEW r \in {"cn", "uid"}
      PROVE  ReadValue(v) = LowerValue(Dn(At(r, n, ou))) <=>
                (Lower(v.text) = "dn" /\ d = At(r, Lower(n), ou) /\ v.like = {})
  <2>1. Lower("dn") = "dn"
    BY LowerFacts DEF Marks
  <2>2. LowerDn(At(r, n, ou)) = At(r, Lower(n), ou)
    BY LowerAt
  <2> QED
    BY <2>1, <2>2, SameLowerValue, DnFields
<1>3. ASSUME id # NoText
      PROVE  v.text = "dn" /\ v.like = {}
  <2>1. d # <<>>
    BY <1>3, IdOfNothing
  <2>2. v.dn # <<>>
    BY <2>1, ReadNone
  <2> QED
    BY <2>2, ValueKinds
<1>4. ASSUME NEW r \in {"cn", "uid"}, d = At(r, Lower(n), ou)
      PROVE  id = Lower(n)
  BY <1>4, IdOfAt
<1>5. ASSUME id # NoText, id = Lower(n)
      PROVE  \E r \in {"cn", "uid"} : d = At(r, Lower(n), ou)
  <2>1. IsSeq(d) /\ (d # <<>> => d[1] = <<d[1][1], d[1][2]>>)
    BY <1>0, ReadShape
  <2> HIDE DEF d
  <2> QED
    BY <1>5, <2>1, AtOfId
<1> HIDE DEF d, id
<1>6. ASSUME id = Lower(n)
      PROVE  \E r \in {"cn", "uid"} : ReadValue(v) = LowerValue(Dn(At(r, n, ou)))
  <2>1. id # NoText
    BY <1>0, <1>6
  <2>2. v.text = "dn" /\ v.like = {} /\ Lower(v.text) = "dn"
    BY <1>3, <2>1, LowerFacts DEF Marks
  <2>3. PICK r \in {"cn", "uid"} : d = At(r, Lower(n), ou)
    BY <1>5, <1>6, <2>1
  <2> QED
    BY <1>2, <2>2, <2>3
<1> QED
  BY <1>0, <1>1, <1>2, <1>4, <1>6

-----------------------------------------------------------------------------
(* The comparisons of users.                                                *)

\* What SQL makes of a node of a filter of LDAP.
UserSql(p, s, u) == Combined(UserNode(p, s), UserAtom(db, u, UserNode(p, s)), {})

LEMMA SqlOfLeaf ==
    ASSUME NEW p, NEW s, NEW u, UserNode(p, s).op \in UserOp
    PROVE  UserSql(p, s, u) = UserAtom(db, u, UserNode(p, s))
BY DEF UserSql, Combined, UserOp

LEMMA SqlOfNode ==
    ASSUME NEW p, NEW s, NEW u, NEW op \in UserOp, NEW field, NEW v,
           UserNode(p, s) = Leaf(op, field, v)
    PROVE  UserSql(p, s, u) = UserAtom(db, u, Leaf(op, field, v))
<1>1. UserNode(p, s).op = op
  BY LeafFields
<1> QED
  BY <1>1, SqlOfLeaf

LEMMA SqlOfBool ==
    ASSUME NEW p, NEW s, NEW u, NEW b, UserNode(p, s) = FromBool(b)
    PROVE  UserSql(p, s, u) = Bool(b)
BY FromBoolValue DEF UserSql

\* The field of each kind.
LEMMA UserKindField ==
    ASSUME NEW field, NEW s
    PROVE  /\ MapUserField(field, s) = "UserId" <=> field = "uid"
           /\ MapUserField(field, s) = "Email" <=> field = "mail"
           /\ MapUserField(field, s) = "DisplayName" <=> field = "cn"
           /\ MapUserField(field, s) = "CreationDate" <=> field = "createtimestamp"
           /\ MapUserField(field, s) = "Uuid" <=> field = "entryuuid"
           /\ MapUserField(field, s) = "MemberOf" <=> field = "memberof"
           /\ MapUserField(field, s) = "ObjectClass" <=> field = "objectclass"
           /\ MapUserField(field, s) = "Dn" <=> field = "dn"
           /\ MapUserField(field, s) = "EntryDn" <=> field = "entrydn"
           /\ MapUserField(field, s) = "Attribute" => field = "givenname" \/ field \in s.user
           /\ MapUserField(field, s) = "NoMatch" => field # "givenname" /\ field \notin s.user
BY DEF MapUserField, UserFieldType

\* What SQL says agrees with what is meant: exactly, or when it says yes.
Means(sql, meant, exact) == (exact => sql = Bool(meant)) /\ (sql = "T" => meant)

LEMMA MeansSame ==
    ASSUME NEW sql, NEW meant, NEW b, NEW exact, sql = Bool(b), b <=> meant
    PROVE  Means(sql, meant, exact)
BY DEF Means, Bool

LEMMA EqualityMatches ==
    ASSUME NEW p, p.op = "Equality", NEW keys
    PROVE  LeafMatches(p, keys) <=> MatchesAny(p.v, keys[p.field])
BY DEF LeafMatches, MatchesAny

\* The texts of an entry that exists are no marks.
LEMMA UserTexts ==
    ASSUME TablesOK, NEW u \in db.users
    PROVE  /\ u \in UserId /\ u \notin Marks /\ Lower(u) = u
           /\ db.mail[u] \notin Marks
           /\ db.name[u] # NoText => db.name[u] \notin Marks
           /\ Uuid[u] \notin Marks /\ Lower(Uuid[u]) = Uuid[u]
<1>1. u \in UserId /\ db.mail[u] \in Mail \cup {NoText} /\ db.mail[u] # NoText
      /\ db.name[u] \in Name \cup {NoText}
  BY DEF TablesOK, TablesTyped, Tables, MailKnown
<1>2. u \in Canonical /\ Uuid[u] \in Canonical
  BY <1>1, FiltersAssumption DEF Canonical
<1>3. u \notin Marks /\ Uuid[u] \notin Marks
  BY <1>2, TextAssumption
<1>4. Lower(u) = u /\ Lower(Uuid[u]) = Uuid[u]
  BY <1>2, LowerFacts
<1> QED
  BY <1>1, <1>3, <1>4, SearchAssumption

\* The fields a user is found by, and their values.
LEMMA UserKeyOf ==
    ASSUME NEW u, NEW field \in Field
    PROVE  UserKeys(u)[field] =
              IF field \in {"dn", "entrydn"} THEN EitherForm(u, People)
              ELSE IF field = "memberof"
              THEN UNION {EitherForm(db.group[g], Groups) : g \in GroupsOf(db, u)}
              ELSE UserAll(db, u, field, GetSchema(db, Everyone))
BY DEF UserKeys

LEMMA UserValuesOf ==
    ASSUME NEW u, NEW field, NEW s
    PROVE  /\ MapUserField(field, s) = "UserId" =>
                 UserAll(db, u, field, s) = {Text(u)}
           /\ MapUserField(field, s) = "Email" =>
                 UserAll(db, u, field, s) = {Text(db.mail[u])}
           /\ MapUserField(field, s) = "DisplayName" =>
                 UserAll(db, u, field, s) = {Text(t) : t \in {db.name[u]} \ {NoText}}
           /\ MapUserField(field, s) = "Uuid" =>
                 UserAll(db, u, field, s) = {Text(Uuid[u])}
           /\ MapUserField(field, s) = "CreationDate" =>
                 UserAll(db, u, field, s) = {Text("date")}
           /\ MapUserField(field, s) = "ObjectClass" =>
                 UserAll(db, u, field, s) = {Text(c) : c \in UserClass}
           /\ MapUserField(field, s) = "Attribute" =>
                 UserAll(db, u, field, s) =
                    CustomValues(db, u, AttributeOf(field), s.user)
           /\ MapUserField(field, s) = "NoMatch" => UserAll(db, u, field, s) = {}
<1>1. CASE MapUserField(field, s) = "UserId"
  BY <1>1 DEF UserAll
<1>2. CASE MapUserField(field, s) = "Email"
  BY <1>2 DEF UserAll
<1>3. CASE MapUserField(field, s) = "DisplayName"
  BY <1>3 DEF UserAll
<1>4. CASE MapUserField(field, s) = "Uuid"
  BY <1>4 DEF UserAll
<1>5. CASE MapUserField(field, s) = "CreationDate"
  BY <1>5 DEF UserAll
<1>6. CASE MapUserField(field, s) = "ObjectClass"
  BY <1>6 DEF UserAll
<1>7. CASE MapUserField(field, s) = "Attribute"
  BY <1>7 DEF UserAll
<1>8. CASE MapUserField(field, s) = "NoMatch"
  BY <1>8 DEF UserAll
<1> QED
  BY <1>1, <1>2, <1>3, <1>4, <1>5, <1>6, <1>7, <1>8

\* A single text, or none.
LEMMA OneText ==
    ASSUME NEW x
    PROVE  {Text(t) : t \in {x} \ {NoText}} = IF x = NoText THEN {} ELSE {Text(x)}
OBVIOUS

\* The schema that a reader of everything has.
LEMMA EveryoneSchema ==
    ASSUME TablesOK, NEW s, s = GetSchema(db, Everyone)
    PROVE  /\ s.user \subseteq UserAttribute /\ s.group \subseteq GroupAttribute
           /\ \A a \in UserAttribute : db.schema[a] # "absent" => a \in s.user
           /\ \A a \in GroupAttribute : db.schema[a] # "absent" => a \in s.group
<1>1. Everyone.permission # "Regular"
  BY DEF Everyone
<1>2. \A a \in Attribute : db.schema[a] \in {"absent", "hidden", "visible"}
  BY DEF TablesOK, TablesTyped, Tables
<1>3. s.user \subseteq UserAttribute /\ s.group \subseteq GroupAttribute
  BY DEF GetSchema
<1> HIDE DEF Everyone
<1> QED
  BY <1>1, <1>2, <1>3, SchemaComplete DEF Attribute

\* An attribute that a value is found in.
LEMMA AttributeMatches ==
    ASSUME TablesOK, NEW e \in UserId \cup GroupId, NEW a \in Attribute, NEW v, IsValue(v),
           db.value[e][a] = <<Lower(v.text)>>, NEW visible, a \in visible
    PROVE  MatchesAny(v, CustomValues(db, e, a, visible))
<1> DEFINE t == Lower(v.text)
<1>1. db.value[e][a] \in AttributeValue
  <2>1. db.value \in [UserId \cup GroupId -> [Attribute -> AttributeValue]]
    BY DEF TablesOK, TablesTyped, Tables
  <2> QED
    BY <2>1
<1>2. t \in AttributeText
  BY <1>1 DEF AttributeValue
<1>3. t \notin Marks /\ t # NoText
  BY <1>2, SearchAssumption DEF Marks
<1>4. ToSet(db.value[e][a]) = {t}
  <2>1. ToSet(<<t>>) = {t}
    BY DEF ToSet
  <2> QED
    BY <2>1
<1>5. CustomValues(db, e, a, visible) = {Text(t)}
  BY <1>4 DEF CustomValues
<1>6. Lower(v.text) = Lower(t)
  BY LowerFacts
<1> HIDE DEF t
<1> QED
  BY <1>3, <1>5, <1>6, MatchesText

LEMMA UserEqualityMeans ==
    ASSUME TablesOK, NEW u \in db.users, NEW p, p.op = "Equality", IsValue(p.v),
           p.field \in Field, NEW s, s = GetSchema(db, Everyone), UserNode(p, s).op # "Error"
    PROVE  Means(UserSql(p, s, u), LeafMatches(p, UserKeys(u)), p.field \notin UserCased)
<1> DEFINE kind == MapUserField(p.field, s)
           w == LowerValue(p.v)
           t == Lower(p.v.text)
           id == IdFromDn(LowerDn(p.v.dn), People)
           group == IdFromDn(LowerDn(p.v.dn), Groups)
           K == UserKeys(u)[p.field]
           q == UserNode(p, s)
           m == MatchesAny(p.v, K)
           sql == UserSql(p, s, u)
           exact == p.field \notin UserCased
<1>1. w.text = t /\ w.dn = LowerDn(p.v.dn) /\ Lower(t) = t
  BY LowerValueFields, LowerFacts
<1>2. q = UserEquality(p.field, w, s)
  BY DEF UserNode, Connective
<1>3. LeafMatches(p, UserKeys(u)) <=> m
  BY EqualityMatches
<1>4. K = IF p.field \in {"dn", "entrydn"} THEN EitherForm(u, People)
          ELSE IF p.field = "memberof"
          THEN UNION {EitherForm(db.group[g], Groups) : g \in GroupsOf(db, u)}
          ELSE UserAll(db, u, p.field, s)
  BY UserKeyOf
<1>5. /\ u \in UserId /\ u \notin Marks /\ Lower(u) = u /\ db.mail[u] \notin Marks
      /\ db.name[u] # NoText => db.name[u] \notin Marks
      /\ Uuid[u] \notin Marks /\ Lower(Uuid[u]) = Uuid[u]
  BY UserTexts
<1>6. SUFFICES Means(sql, m, exact)
  BY <1>3 DEF Means, Bool
<1>7. NoText \in Marks /\ "date" \notin Marks
  BY DEF Marks, NoText
<1> HIDE DEF w, K, q, m, sql, t, id, group
<1>11. CASE kind = "UserId"
  <2>1. q = Leaf("UserId", "", t)
    BY <1>1, <1>2, <1>11 DEF UserEquality
  <2>2. sql = Bool(u = t)
    <3>1. sql = UserAtom(db, u, Leaf("UserId", "", t))
      <4>1. q.op \in UserOp
        BY <2>1 DEF Leaf, UserOp
      <4> QED
        BY <2>1, <4>1, SqlOfLeaf DEF sql, q
    <3>2. UserAtom(db, u, Leaf("UserId", "", t)) = Bool(u = t)
      BY DEF UserAtom, Leaf
    <3> QED
      BY <3>1, <3>2
  <2>3. K = {Text(u)}
    BY <1>4, <1>5, <1>7, <1>11, UserKindField, UserValuesOf, OneText
  <2>4. m <=> t = Lower(u)
    BY <1>5, <2>3, MatchesText DEF m, t
  <2> QED
    BY <1>5, <2>2, <2>4, MeansSame
<1>12. CASE kind = "Email"
  <2>1. q = Leaf("Equality", "Email", t)
    BY <1>1, <1>2, <1>12 DEF UserEquality
  <2>2. sql = Bool(Lower(db.mail[u]) = Lower(t))
    <3>2. UserColumn(db, u, "Email") = Lower(db.mail[u]) /\ Compared("Email", t) = Lower(t)
      BY DEF UserColumn, Compared
    <3>3. Lower(db.mail[u]) # NoText
      BY <1>5, <1>7, LowerFacts
    <3>4. sql = UserAtom(db, u, Leaf("Equality", "Email", t))
      BY <2>1, SqlOfNode DEF sql, q, UserOp
    <3>5. UserAtom(db, u, Leaf("Equality", "Email", t)) =
             IF UserColumn(db, u, "Email") = NoText THEN "N"
             ELSE Bool(UserColumn(db, u, "Email") = Compared("Email", t))
      BY DEF UserAtom, Leaf
    <3> QED
      BY <3>2, <3>3, <3>4, <3>5
  <2>3. K = {Text(db.mail[u])}
    BY <1>4, <1>5, <1>7, <1>12, UserKindField, UserValuesOf, OneText
  <2>4. m <=> t = Lower(db.mail[u])
    BY <1>5, <2>3, MatchesText DEF m, t
  <2> QED
    BY <1>1, <2>2, <2>4, MeansSame
<1>13. CASE kind = "DisplayName"
  <2>1. q = Leaf("Equality", "DisplayName", t) /\ ~exact
    BY <1>1, <1>2, <1>13, UserKindField DEF UserEquality, UserCased
  <2>2. sql = IF db.name[u] = NoText THEN "N" ELSE Bool(db.name[u] = t)
    <3>2. UserColumn(db, u, "DisplayName") = db.name[u] /\ Compared("DisplayName", t) = t
      BY DEF UserColumn, Compared
    <3>4. sql = UserAtom(db, u, Leaf("Equality", "DisplayName", t))
      BY <2>1, SqlOfNode DEF sql, q, UserOp
    <3>5. UserAtom(db, u, Leaf("Equality", "DisplayName", t)) =
             IF UserColumn(db, u, "DisplayName") = NoText THEN "N"
             ELSE Bool(UserColumn(db, u, "DisplayName") = Compared("DisplayName", t))
      BY DEF UserAtom, Leaf
    <3> QED
      BY <3>2, <3>4, <3>5
  <2>3. ASSUME sql = "T" PROVE m
    <3>1. db.name[u] # NoText /\ db.name[u] = t
      BY <2>2, <2>3 DEF Bool
    <3>2. K = {Text(db.name[u])}
      BY <1>4, <1>13, <3>1, UserKindField, UserValuesOf, OneText
    <3>3. m <=> t = Lower(db.name[u])
      BY <1>5, <3>1, <3>2, MatchesText DEF m, t
    <3> QED
      BY <1>1, <3>1, <3>3
  <2> QED
    BY <2>1, <2>3 DEF Means
<1>14. CASE kind = "CreationDate"
  <2>1. q = Leaf("Equality", "CreationDate", t) /\ ~exact
    BY <1>1, <1>2, <1>14, UserKindField DEF UserEquality, UserCased
  <2>2. sql = IF "date" = NoText THEN "N" ELSE Bool("date" = t)
    <3>2. UserColumn(db, u, "CreationDate") = "date" /\ Compared("CreationDate", t) = t
      BY DEF UserColumn, Compared
    <3>4. sql = UserAtom(db, u, Leaf("Equality", "CreationDate", t))
      BY <2>1, SqlOfNode DEF sql, q, UserOp
    <3>5. UserAtom(db, u, Leaf("Equality", "CreationDate", t)) =
             IF UserColumn(db, u, "CreationDate") = NoText THEN "N"
             ELSE Bool(UserColumn(db, u, "CreationDate") = Compared("CreationDate", t))
      BY DEF UserAtom, Leaf
    <3> QED
      BY <3>2, <3>4, <3>5
  <2>3. ASSUME sql = "T" PROVE m
    <3>1. "date" = t
      BY <2>2, <2>3, <1>7 DEF Bool
    <3>2. K = {Text("date")}
      BY <1>4, <1>7, <1>14, UserKindField, UserValuesOf, OneText
    <3>3. m <=> t = Lower("date")
      BY <1>7, <3>2, MatchesText DEF m, t
    <3> QED
      BY <1>1, <3>1, <3>3
  <2> QED
    BY <2>1, <2>3 DEF Means
<1>15. CASE kind = "Uuid"
  <2>1. q = Leaf("Equality", "Uuid", t)
    BY <1>1, <1>2, <1>15 DEF UserEquality
  <2>2. sql = Bool(Uuid[u] = t)
    <3>2. UserColumn(db, u, "Uuid") = Uuid[u] /\ Compared("Uuid", t) = t
      BY DEF UserColumn, Compared
    <3>3. Uuid[u] # NoText
      BY <1>5, <1>7
    <3>4. sql = UserAtom(db, u, Leaf("Equality", "Uuid", t))
      BY <2>1, SqlOfNode DEF sql, q, UserOp
    <3>5. UserAtom(db, u, Leaf("Equality", "Uuid", t)) =
             IF UserColumn(db, u, "Uuid") = NoText THEN "N"
             ELSE Bool(UserColumn(db, u, "Uuid") = Compared("Uuid", t))
      BY DEF UserAtom, Leaf
    <3> QED
      BY <3>2, <3>3, <3>4, <3>5
  <2>3. K = {Text(Uuid[u])}
    BY <1>4, <1>5, <1>7, <1>15, UserKindField, UserValuesOf, OneText
  <2>4. m <=> t = Lower(Uuid[u])
    BY <1>5, <2>3, MatchesText DEF m, t
  <2> QED
    BY <1>5, <2>2, <2>4, MeansSame
<1>16. CASE kind = "NoMatch"
  <2>1. q = FromBool(FALSE)
    BY <1>2, <1>16 DEF UserEquality
  <2>2. sql = Bool(FALSE)
    BY <2>1, SqlOfBool DEF sql, q
  <2>3. K = {}
    BY <1>4, <1>16, UserKindField, UserValuesOf
  <2>4. ~m
    BY <2>3 DEF m, MatchesAny
  <2> QED
    BY <2>2, <2>4, MeansSame
<1>17. CASE kind = "ObjectClass"
  <2>1. q = FromBool(t \in UserClass)
    BY <1>1, <1>2, <1>17 DEF UserEquality
  <2>2. sql = Bool(t \in UserClass)
    BY <2>1, SqlOfBool DEF sql, q
  <2>3. UserClass \cap Marks = {} /\ \A c \in UserClass : Lower(c) = c
    BY TextAssumption, LowerFacts DEF Canonical
  <2>4. K = {Text(c) : c \in UserClass}
    BY <1>4, <1>17, UserKindField, UserValuesOf
  <2>5. m <=> \E c \in UserClass : t = Lower(c)
    BY <2>3, <2>4, MatchesTexts DEF m, t
  <2>6. t \in UserClass <=> m
    BY <2>3, <2>5
  <2> QED
    BY <2>2, <2>6 DEF Means, Bool
<1>18. CASE kind = "MemberOf"
  <2>1. group # NoText /\ q = Leaf("MemberOf", "", group)
    <3>1. q = IF group = NoText THEN Error ELSE Leaf("MemberOf", "", group)
      BY <1>1, <1>2, <1>18 DEF UserEquality, group
    <3> QED
      BY <3>1, FromBoolFields DEF q
  <2>2. sql = Bool(\E g \in GroupsOf(db, u) : Lower(db.group[g]) = Lower(group))
    <3>1. sql = UserAtom(db, u, Leaf("MemberOf", "", group))
      <4>1. q.op \in UserOp
        BY <2>1 DEF Leaf, UserOp
      <4> QED
        BY <2>1, <4>1, SqlOfLeaf DEF sql, q
    <3>2. UserAtom(db, u, Leaf("MemberOf", "", group)) = MemberOf(db, u, group)
      BY DEF UserAtom, Leaf
    <3> QED
      BY <3>1, <3>2 DEF MemberOf
  <2>3. Lower(group) = group
    BY IdIsLower DEF group, IsValue
  <2>4. K = UNION {EitherForm(db.group[g], Groups) : g \in GroupsOf(db, u)}
    BY <1>4, <1>18, UserKindField
  <2>5. m <=> \E g \in GroupsOf(db, u) : MatchesAny(p.v, EitherForm(db.group[g], Groups))
    BY <2>4 DEF m, MatchesAny
  <2>6. \A g \in GroupsOf(db, u) :
           MatchesAny(p.v, EitherForm(db.group[g], Groups)) <=> group = Lower(db.group[g])
    BY <2>1, MatchesForm DEF group
  <2> QED
    BY <2>2, <2>3, <2>5, <2>6, MeansSame
<1>19. CASE kind \in {"Dn", "EntryDn"}
  <2>1. q = IF id = NoText THEN FromBool(FALSE) ELSE Leaf("UserId", "", id)
    BY <1>1, <1>2, <1>19 DEF UserEquality, id
  <2>2. sql = Bool(u = id)
    <3>1. CASE id = NoText
      <4>1. sql = Bool(FALSE) /\ u # id
        BY <1>5, <1>7, <2>1, <3>1, SqlOfBool DEF sql, q
      <4> QED
        BY <4>1 DEF Bool
    <3>2. CASE id # NoText
      <4>1. sql = UserAtom(db, u, Leaf("UserId", "", id))
        <5>1. q.op \in UserOp
          BY <2>1, <3>2 DEF Leaf, UserOp
        <5> QED
          BY <2>1, <3>2, <5>1, SqlOfLeaf DEF sql, q
      <4>2. UserAtom(db, u, Leaf("UserId", "", id)) = Bool(u = id)
        BY DEF UserAtom, Leaf
      <4> QED
        BY <4>1, <4>2
    <3> QED
      BY <3>1, <3>2
  <2>3. K = EitherForm(u, People)
    BY <1>4, <1>19, UserKindField
  <2>4. m <=> id = Lower(u)
    BY <1>5, <1>7, <2>3, MatchesForm DEF m, id
  <2> QED
    BY <1>5, <2>2, <2>4, MeansSame
<1>20. CASE kind = "Attribute"
  <2> DEFINE a == AttributeOf(p.field)
  <2>1. p.field = "givenname" \/ p.field \in s.user
    BY <1>20, UserKindField
  <2>2. a \in UserAttribute /\ ~exact
    <3>1. CASE p.field = "givenname"
      BY <3>1, SearchAssumption DEF AttributeOf, UserCased
    <3>2. CASE p.field # "givenname"
      BY <2>1, <3>2, EveryoneSchema DEF AttributeOf, UserCased, Attribute
    <3> QED
      BY <3>1, <3>2
  <2> HIDE DEF a
  <2>3. q = Leaf("AttributeEquality", a, <<t>>)
    <3>1. q = AttributeEquality(a, t)
      BY <1>1, <1>2, <1>20 DEF UserEquality, a
    <3> QED
      BY <3>1, FromBoolFields DEF q, AttributeEquality
  <2>4. sql = Bool(db.value[u][a] = <<t>>)
    <3>1. sql = UserAtom(db, u, Leaf("AttributeEquality", a, <<t>>))
      BY <2>3, SqlOfNode DEF sql, q, UserOp
    <3>2. UserAtom(db, u, Leaf("AttributeEquality", a, <<t>>)) = Bool(db.value[u][a] = <<t>>)
      BY DEF UserAtom, Leaf
    <3> QED
      BY <3>1, <3>2
  <2>5. ASSUME sql = "T" PROVE m
    <3>1. db.value[u][a] = <<t>>
      BY <2>4, <2>5 DEF Bool
    <3>2. a \in Attribute /\ <<t>> # <<>>
      BY <2>2 DEF Attribute
    <3>3. a \in s.user
      BY <1>5, <2>2, <3>1, <3>2, EveryoneSchema DEF TablesOK, ValuesKnown
    <3>4. MatchesAny(p.v, CustomValues(db, u, a, s.user))
      BY <1>5, <3>1, <3>2, <3>3, AttributeMatches DEF t
    <3>5. K = CustomValues(db, u, a, s.user)
      BY <1>4, <1>20, UserKindField, UserValuesOf DEF a
    <3> QED
      BY <3>4, <3>5 DEF m
  <2> QED
    BY <2>2, <2>5 DEF Means
<1> QED
  BY <1>11, <1>12, <1>13, <1>14, <1>15, <1>16, <1>17, <1>18, <1>19, <1>20, UserKinds

LEMMA UserPresentMeans ==
    ASSUME NEW u, NEW p, p.op = "Present", p.field \in Field,
           p.field \notin UserMissing(u), NEW s, s = GetSchema(db, Everyone)
    PROVE  UserSql(p, s, u) = Bool(LeafMatches(p, UserKeys(u)))
<1> DEFINE kind == MapUserField(p.field, s)
           K == UserKeys(u)[p.field]
<1>1. UserSql(p, s, u) = Bool(kind # "NoMatch")
  <2>1. UserNode(p, s) = FromBool(kind # "NoMatch")
    BY DEF UserNode, Connective
  <2> QED
    BY <2>1, SqlOfBool
<1>2. LeafMatches(p, UserKeys(u)) <=> ~Unvalued(K)
  BY DEF LeafMatches
<1>3. ASSUME kind = "NoMatch"
      PROVE  K = {}
  <2>1. p.field \notin {"dn", "entrydn", "memberof"}
    BY <1>3, UserKindField
  <2>2. K = UserAll(db, u, p.field, s)
    BY <2>1, UserKeyOf
  <2> QED
    BY <1>3, <2>2, UserValuesOf
<1>4. kind # "NoMatch" => ~Unvalued(K)
  BY DEF UserMissing
<1> HIDE DEF K
<1>5. Unvalued(K) <=> kind = "NoMatch"
  BY <1>3, <1>4 DEF Unvalued
<1> QED
  BY <1>1, <1>2, <1>5 DEF Bool

LEMMA UserSubstringMeans ==
    ASSUME TablesOK, NEW u \in db.users, NEW p, p.op = "Substring", p.field \in Field,
           NEW s, s = GetSchema(db, Everyone), UserNode(p, s).op # "Error"
    PROVE  Means(UserSql(p, s, u), LeafMatches(p, UserKeys(u)), p.field \notin UserCased)
<1> DEFINE kind == MapUserField(p.field, s)
           L == p.v.like
           K == UserKeys(u)[p.field]
           q == UserNode(p, s)
           m == \E k \in K : Lower(k.text) \in L
           sql == UserSql(p, s, u)
           exact == p.field \notin UserCased
<1>1. q = UserSubstring(p.field, L, s)
  BY DEF UserNode, Connective
<1>2. LeafMatches(p, UserKeys(u)) <=> m
  BY DEF LeafMatches
<1>3. K = IF p.field \in {"dn", "entrydn"} THEN EitherForm(u, People)
          ELSE IF p.field = "memberof"
          THEN UNION {EitherForm(db.group[g], Groups) : g \in GroupsOf(db, u)}
          ELSE UserAll(db, u, p.field, s)
  BY UserKeyOf
<1>4. /\ u \notin Marks /\ Lower(u) = u /\ db.mail[u] \notin Marks /\ NoText \in Marks
      /\ Lower(Lower(db.mail[u])) = Lower(db.mail[u]) /\ Lower(db.mail[u]) # NoText
  BY UserTexts, LowerFacts DEF Marks
<1>5. SUFFICES Means(sql, m, exact)
  BY <1>2 DEF Means, Bool
<1>6. ASSUME NEW t, K = {Text(t)}
      PROVE  m <=> Lower(t) \in L
  BY <1>6, TextFields
<1> HIDE DEF K, q, m, sql, L
<1>11. CASE kind = "UserId"
  <2>1. q = Leaf("UserIdSubString", "", L)
    BY <1>1, <1>11 DEF UserSubstring
  <2>2. sql = Bool(u \in L)
    <3>1. q.op \in UserOp
      BY <2>1 DEF Leaf, UserOp
    <3>2. sql = UserAtom(db, u, Leaf("UserIdSubString", "", L))
      BY <2>1, <3>1, SqlOfLeaf DEF sql, q
    <3> QED
      BY <3>2 DEF UserAtom, Leaf
  <2>3. K = {Text(u)}
    BY <1>3, <1>4, <1>11, UserKindField, UserValuesOf, OneText
  <2> QED
    BY <1>4, <1>6, <2>2, <2>3 DEF Means, Bool
<1>12. CASE kind = "Email"
  <2>1. q = Leaf("SubString", "Email", L)
    BY <1>1, <1>12 DEF UserSubstring
  <2>2. sql = Bool(Lower(db.mail[u]) \in L)
    <3>1. UserColumn(db, u, "Email") = Lower(db.mail[u])
      BY DEF UserColumn
    <3>2. sql = UserAtom(db, u, Leaf("SubString", "Email", L))
      BY <2>1, SqlOfNode DEF sql, q, UserOp
    <3>3. UserAtom(db, u, Leaf("SubString", "Email", L)) =
             IF UserColumn(db, u, "Email") = NoText THEN "N"
             ELSE Bool(Lower(UserColumn(db, u, "Email")) \in L)
      BY DEF UserAtom, Leaf
    <3> QED
      BY <1>4, <3>1, <3>2, <3>3
  <2>3. K = {Text(db.mail[u])}
    BY <1>3, <1>4, <1>12, UserKindField, UserValuesOf, OneText
  <2> QED
    BY <1>6, <2>2, <2>3 DEF Means, Bool
<1>13. CASE kind = "DisplayName"
  <2>1. q = Leaf("SubString", "DisplayName", L) /\ ~exact
    BY <1>1, <1>13, UserKindField DEF UserSubstring, UserCased
  <2>2. sql = IF db.name[u] = NoText THEN "N" ELSE Bool(Lower(db.name[u]) \in L)
    <3>1. UserColumn(db, u, "DisplayName") = db.name[u]
      BY DEF UserColumn
    <3>2. sql = UserAtom(db, u, Leaf("SubString", "DisplayName", L))
      BY <2>1, SqlOfNode DEF sql, q, UserOp
    <3>3. UserAtom(db, u, Leaf("SubString", "DisplayName", L)) =
             IF UserColumn(db, u, "DisplayName") = NoText THEN "N"
             ELSE Bool(Lower(UserColumn(db, u, "DisplayName")) \in L)
      BY DEF UserAtom, Leaf
    <3> QED
      BY <3>1, <3>2, <3>3
  <2>3. ASSUME db.name[u] # NoText
        PROVE  K = {Text(db.name[u])}
    BY <1>3, <1>13, <2>3, UserKindField, UserValuesOf, OneText
  <2> QED
    BY <1>6, <2>1, <2>2, <2>3 DEF Means, Bool
<1>14. CASE kind = "NoMatch"
  <2>1. q = FromBool(FALSE)
    BY <1>1, <1>14 DEF UserSubstring
  <2>2. sql = Bool(FALSE)
    BY <2>1, SqlOfBool DEF sql, q
  <2>3. K = {}
    BY <1>3, <1>14, UserKindField, UserValuesOf
  <2> QED
    BY <2>2, <2>3 DEF Means, Bool, m
<1>15. CASE kind \notin {"UserId", "Email", "DisplayName", "NoMatch"}
  <2>1. q = Error
    BY <1>1, <1>15 DEF UserSubstring
  <2> QED
    BY <2>1, FromBoolFields DEF q
<1> QED
  BY <1>11, <1>12, <1>13, <1>14, <1>15

-----------------------------------------------------------------------------
(* What a filter means, from what its comparisons mean.                     *)

\* The condition of Exact for one node.
ExactNode(p, missing, cased) ==
    /\ p.op = "Present" => p.field \notin missing
    /\ p.op \in {"Equality", "Substring"} => p.field \notin cased

NodeMeans(p, q, atom, keys, missing, cased) ==
    IF p.op \in Connective THEN q = p
    ELSE /\ q.of = {}
         /\ ExactNode(p, missing, cased) => Combined(q, atom, {}) = Bool(LeafMatches(p, keys))
         /\ p.op # "Present" /\ Combined(q, atom, {}) = "T" => LeafMatches(p, keys)

LEMMA FilterMeans ==
    ASSUME NEW f, IsFilter(f), NEW c, IsFilter(c), Len(c) = Len(f), NEW b,
           \A k \in Leaves(c) : b[k] \in TruthValue, NEW keys, NEW missing, NEW cased,
           \A k \in 1 .. Len(f) : NodeMeans(f[k], c[k], b[k], keys, missing, cased)
    PROVE  /\ Exact(f, missing, cased) => (Value(c, b) = "T" <=> Matches(f, keys))
           /\ Positive(f) /\ Value(c, b) = "T" => Matches(f, keys)
<1> DEFINE a == [k \in Leaves(f) |-> Bool(LeafMatches(f[k], keys))]
           n == Len(f)
<1>1. n \in Nat /\ n # 0 /\ DOMAIN f = 1 .. n /\ n \in 1 .. n
  BY FilterShape
<1>2. Matches(f, keys) <=> Truth(f, a)[n] = "T"
  BY DEF Matches, Value
<1>3. Value(c, b) = Truth(c, b)[n]
  BY DEF Value
<1>4. \A k \in 1 .. n : f[k].op \notin Connective => k \in Leaves(f) /\ a[k] = Bool(LeafMatches(f[k], keys))
  BY <1>1 DEF Leaves
<1>5. \A k \in Leaves(f) : a[k] \in TruthValue
  BY BoolTyped
<1> HIDE DEF a
<1>6. ASSUME Exact(f, missing, cased)
      PROVE  Truth(f, a)[n] = Truth(c, b)[n]
  <2>1. ASSUME NEW k \in 1 .. n PROVE SameNode(f[k], a[k], c[k], b[k])
    <3>1. NodeMeans(f[k], c[k], b[k], keys, missing, cased)
      OBVIOUS
    <3>2. ExactNode(f[k], missing, cased)
      BY <1>1, <1>6 DEF Exact, ExactNode
    <3> QED
      BY <1>4, <3>1, <3>2 DEF NodeMeans, SameNode
  <2>2. \A k \in 1 .. n : Truth(f, a)[k] = Truth(c, b)[k]
    BY <1>1, <2>1, TruthAgrees
  <2> QED
    BY <1>1, <2>2
<1>7. ASSUME Positive(f), Truth(c, b)[n] = "T"
      PROVE  Truth(f, a)[n] = "T"
  <2>1. ASSUME NEW k \in 1 .. n PROVE WiderNode(f[k], a[k], c[k], b[k])
    <3>1. NodeMeans(f[k], c[k], b[k], keys, missing, cased)
      OBVIOUS
    <3>2. f[k].op \notin {"Not", "Present"}
      BY <1>1, <1>7 DEF Positive
    <3>3. CASE f[k].op \in Connective
      BY <3>1, <3>2, <3>3 DEF NodeMeans, WiderNode, Connective
    <3>4. CASE f[k].op \notin Connective
      BY <1>4, <3>1, <3>2, <3>4, BoolTyped DEF NodeMeans, WiderNode
    <3> QED
      BY <3>3, <3>4
  <2>2. \A k \in 1 .. n : Truth(c, b)[k] = "T" => Truth(f, a)[k] = "T"
    BY <1>1, <1>5, <2>1, TruthGrows
  <2> QED
    BY <1>1, <1>7, <2>2
<1> QED
  BY <1>2, <1>3, <1>6, <1>7

LEMMA UserNodeMeans ==
    ASSUME TablesOK, NEW u \in db.users, NEW p, NEW s, s = GetSchema(db, Everyone),
           p.op \notin Connective => IsValue(p.v) /\ p.field \in Field,
           NEW q, q = UserNode(p, s), q.op # "Error",
           NEW atom, q.op \notin Connective => atom = UserAtom(db, u, q)
    PROVE  NodeMeans(p, q, atom, UserKeys(u), UserMissing(u), UserCased)
<1> DEFINE missing == UserMissing(u)
           keys == UserKeys(u)
<1>1. CASE p.op \in Connective
  BY <1>1, UserNodeShape DEF NodeMeans
<1>2. CASE p.op \notin Connective
  <2>1. NodeOf(q, UserOp)
    BY <1>2, UserNodeShape
  <2>2. q.of = {}
    BY <2>1 DEF NodeOf
  <2>3. Combined(q, atom, {}) = UserSql(p, s, u)
    <3>1. CASE q.op \in Connective
      BY <3>1 DEF UserSql, Combined, Connective
    <3>2. CASE q.op \notin Connective
      BY <3>2 DEF UserSql
    <3> QED
      BY <3>1, <3>2
  <2>4. CASE p.op = "Equality"
    <3>1. Means(UserSql(p, s, u), LeafMatches(p, keys), p.field \notin UserCased)
      BY <1>2, <2>4, UserEqualityMeans
    <3> QED
      BY <1>2, <2>2, <2>3, <2>4, <3>1 DEF NodeMeans, ExactNode, Means
  <2>5. CASE p.op = "Substring"
    <3>1. Means(UserSql(p, s, u), LeafMatches(p, keys), p.field \notin UserCased)
      BY <1>2, <2>5, UserSubstringMeans
    <3> QED
      BY <1>2, <2>2, <2>3, <2>5, <3>1 DEF NodeMeans, ExactNode, Means
  <2>6. CASE p.op = "Present"
    <3>1. p.field \notin missing => UserSql(p, s, u) = Bool(LeafMatches(p, keys))
      BY <1>2, <2>6, UserPresentMeans
    <3> QED
      BY <1>2, <2>2, <2>3, <2>6, <3>1 DEF NodeMeans, ExactNode
  <2>7. CASE p.op \notin {"Equality", "Substring", "Present"}
    <3>1. q = Error
      BY <1>2, <2>7 DEF UserNode
    <3> QED
      BY <3>1, FromBoolFields
  <2> QED
    BY <2>4, <2>5, <2>6, <2>7
<1> QED
  BY <1>1, <1>2

\* convert_user_filter and get_user_filter_expr select what a filter means.
LEMMA UsersMeant ==
    ASSUME TablesOK, NEW u \in db.users, NEW f \in AnyFilter, NEW s, s = GetSchema(db, Everyone),
           NEW c, c = ConvertUserFilter(f, s), ~IsError(c)
    PROVE  /\ Exact(f, UserMissing(u), UserCased) =>
                 (u \in UsersSelected(db, c) <=> Matches(f, UserKeys(u)))
           /\ Positive(f) /\ u \in UsersSelected(db, c) => Matches(f, UserKeys(u))
<1> DEFINE b == [k \in Leaves(c) |-> UserAtom(db, u, c[k])]
           missing == UserMissing(u)
<1>1. IsFilter(f) /\ \A k \in Leaves(f) : IsValue(f[k].v) /\ f[k].field \in Field
  BY SearchAssumption
<1>2. IsFor(c, UserOp) /\ Len(c) = Len(f) /\ DOMAIN c = 1 .. Len(f)
  BY <1>1, ConvertedUser
<1>3. \A k \in 1 .. Len(f) : c[k] = UserNode(f[k], s)
  BY <1>1, ConvertedUser
<1>4. DOMAIN f = 1 .. Len(f) /\ IsFilter(c)
  BY <1>1, <1>2, FilterShape DEF IsFor
<1>5. \A k \in Leaves(c) : b[k] = UserAtom(db, u, c[k]) /\ b[k] \in TruthValue
  BY <1>2, UserAtomTyped DEF IsFor
<1>6. u \in UsersSelected(db, c) <=> Value(c, b) = "T"
  BY DEF UsersSelected, UserCondition
<1> HIDE DEF b, missing
<1>7. ASSUME NEW k \in 1 .. Len(f)
      PROVE  NodeMeans(f[k], c[k], b[k], UserKeys(u), missing, UserCased)
  <2>1. c[k] = UserNode(f[k], s) /\ c[k].op # "Error"
    BY <1>2, <1>3 DEF IsError
  <2>2. f[k].op \notin Connective => IsValue(f[k].v) /\ f[k].field \in Field
    BY <1>1, <1>4 DEF Leaves
  <2>3. c[k].op \notin Connective => b[k] = UserAtom(db, u, c[k])
    BY <1>2, <1>5 DEF Leaves
  <2> QED
    BY <2>1, <2>2, <2>3, UserNodeMeans DEF missing
<1>8. /\ Exact(f, missing, UserCased) => (Value(c, b) = "T" <=> Matches(f, UserKeys(u)))
      /\ Positive(f) /\ Value(c, b) = "T" => Matches(f, UserKeys(u))
  BY <1>1, <1>2, <1>4, <1>5, <1>7, FilterMeans
<1> QED
  BY <1>6, <1>8 DEF missing

-----------------------------------------------------------------------------
(* The comparisons of groups.                                               *)

GroupSql(p, s, g) == Combined(GroupNode(p, s), GroupAtom(db, g, GroupNode(p, s)), {})

LEMMA GroupSqlOfLeaf ==
    ASSUME NEW p, NEW s, NEW g, GroupNode(p, s).op \in GroupOp
    PROVE  GroupSql(p, s, g) = GroupAtom(db, g, GroupNode(p, s))
BY DEF GroupSql, Combined, GroupOp

LEMMA GroupSqlOfBool ==
    ASSUME NEW p, NEW s, NEW g, NEW b, GroupNode(p, s) = FromBool(b)
    PROVE  GroupSql(p, s, g) = Bool(b)
BY FromBoolValue DEF GroupSql

LEMMA GroupKindField ==
    ASSUME NEW field, NEW s
    PROVE  /\ MapGroupField(field, s) = "DisplayName" <=> field \in {"cn", "uid"}
           /\ MapGroupField(field, s) = "CreationDate" <=> field = "createtimestamp"
           /\ MapGroupField(field, s) = "Uuid" <=> field = "entryuuid"
           /\ MapGroupField(field, s) = "Member" <=> field = "member"
           /\ MapGroupField(field, s) = "ObjectClass" <=> field = "objectclass"
           /\ MapGroupField(field, s) = "Dn" <=> field = "dn"
           /\ MapGroupField(field, s) = "EntryDn" <=> field = "entrydn"
           /\ MapGroupField(field, s) = "Attribute" => field \in s.group
BY DEF MapGroupField, GroupFieldType

LEMMA GroupTexts ==
    ASSUME TablesOK, NEW g \in GroupId, db.group[g] # NoText
    PROVE  /\ db.group[g] \notin Marks
           /\ Uuid[g] \notin Marks /\ Lower(Uuid[g]) = Uuid[g]
<1>1. db.group[g] \in GroupName
  BY DEF TablesOK, TablesTyped, Tables
<1>2. Uuid[g] \in Canonical
  BY FiltersAssumption DEF Canonical
<1> QED
  BY <1>1, <1>2, TextAssumption, SearchAssumption, LowerFacts

LEMMA GroupKeyOf ==
    ASSUME NEW g, NEW field \in Field
    PROVE  GroupKeys(g)[field] =
              IF field \in {"dn", "entrydn"} THEN EitherForm(db.group[g], Groups)
              ELSE IF field = "member" THEN UNION {EitherForm(u, People) : u \in MembersOf(db, g)}
              ELSE IF field = "objectclass" THEN {Text(c) : c \in GroupClass \cup {"groupofnames"}}
              ELSE GroupAll(db, g, field, GetSchema(db, Everyone), UserId)
BY DEF GroupKeys

LEMMA GroupValuesOf ==
    ASSUME NEW g, NEW field, NEW s, NEW all
    PROVE  /\ MapGroupField(field, s) = "DisplayName" =>
                 GroupAll(db, g, field, s, all) = {Text(db.group[g])}
           /\ MapGroupField(field, s) = "CreationDate" =>
                 GroupAll(db, g, field, s, all) = {Text("date")}
           /\ MapGroupField(field, s) = "Uuid" =>
                 GroupAll(db, g, field, s, all) = {Text(Uuid[g])}
           /\ MapGroupField(field, s) = "Attribute" =>
                 GroupAll(db, g, field, s, all) =
                    CustomValues(db, g, field, s.group)
           /\ MapGroupField(field, s) = "NoMatch" => GroupAll(db, g, field, s, all) = {}
<1>1. CASE MapGroupField(field, s) = "DisplayName"
  BY <1>1 DEF GroupAll
<1>2. CASE MapGroupField(field, s) = "CreationDate"
  BY <1>2 DEF GroupAll
<1>3. CASE MapGroupField(field, s) = "Uuid"
  BY <1>3 DEF GroupAll
<1>4. CASE MapGroupField(field, s) = "Attribute"
  BY <1>4 DEF GroupAll
<1>5. CASE MapGroupField(field, s) = "NoMatch"
  BY <1>5 DEF GroupAll
<1> QED
  BY <1>1, <1>2, <1>3, <1>4, <1>5

LEMMA GroupEqualityMeans ==
    ASSUME TablesOK, NEW g \in GroupId, db.group[g] # NoText, NEW p, p.op = "Equality",
           IsValue(p.v), p.field \in Field, NEW s, s = GetSchema(db, Everyone),
           GroupNode(p, s).op # "Error"
    PROVE  Means(GroupSql(p, s, g), LeafMatches(p, GroupKeys(g)), p.field \notin Attribute)
<1> DEFINE kind == MapGroupField(p.field, s)
           w == LowerValue(p.v)
           t == Lower(p.v.text)
           id == IdFromDn(LowerDn(p.v.dn), People)
           group == IdFromDn(LowerDn(p.v.dn), Groups)
           K == GroupKeys(g)[p.field]
           q == GroupNode(p, s)
           m == MatchesAny(p.v, K)
           sql == GroupSql(p, s, g)
           exact == p.field \notin Attribute
           classes == GroupClass \cup {"groupofnames"}
<1>1. w.text = t /\ w.dn = LowerDn(p.v.dn) /\ Lower(t) = t
  BY LowerValueFields, LowerFacts
<1>2. q = GroupEquality(p.field, w, s)
  BY DEF GroupNode, Connective
<1>3. LeafMatches(p, GroupKeys(g)) <=> m
  BY EqualityMatches
<1>4. K = IF p.field \in {"dn", "entrydn"} THEN EitherForm(db.group[g], Groups)
          ELSE IF p.field = "member" THEN UNION {EitherForm(u, People) : u \in MembersOf(db, g)}
          ELSE IF p.field = "objectclass" THEN {Text(c) : c \in classes}
          ELSE GroupAll(db, g, p.field, s, UserId)
  BY GroupKeyOf
<1>5. /\ db.group[g] \notin Marks /\ Uuid[g] \notin Marks /\ Lower(Uuid[g]) = Uuid[g]
      /\ NoText \in Marks /\ Lower(db.group[g]) # NoText
  BY GroupTexts, LowerFacts DEF Marks
<1>6. SUFFICES Means(sql, m, exact)
  BY <1>3 DEF Means, Bool
<1> HIDE DEF w, K, q, m, sql, t, id, group, classes
<1>11. CASE kind = "DisplayName"
  <2>1. q = Leaf("DisplayName", "", t)
    BY <1>1, <1>2, <1>11 DEF GroupEquality
  <2>2. sql = Bool(Lower(db.group[g]) = Lower(t))
    <3>1. q.op \in GroupOp
      BY <2>1 DEF Leaf, GroupOp
    <3>2. sql = GroupAtom(db, g, Leaf("DisplayName", "", t))
      BY <2>1, <3>1, GroupSqlOfLeaf DEF sql, q
    <3> QED
      BY <3>2 DEF GroupAtom, Leaf
  <2>3. K = {Text(db.group[g])}
    BY <1>4, <1>5, <1>11, GroupKindField, GroupValuesOf, OneText
  <2>4. m <=> t = Lower(db.group[g])
    BY <1>5, <2>3, MatchesText DEF m, t
  <2> QED
    BY <1>1, <2>2, <2>4 DEF Means, Bool
<1>12. CASE kind = "Uuid"
  <2>1. q = Leaf("Uuid", "", t)
    <3>1. q = IF t \in {Uuid[e] : e \in DOMAIN Uuid} THEN Leaf("Uuid", "", t) ELSE Error
      BY <1>1, <1>2, <1>12 DEF GroupEquality
    <3> QED
      BY <3>1, FromBoolFields DEF q
  <2>2. sql = Bool(Uuid[g] = t)
    <3>1. q.op \in GroupOp
      BY <2>1 DEF Leaf, GroupOp
    <3>2. sql = GroupAtom(db, g, Leaf("Uuid", "", t))
      BY <2>1, <3>1, GroupSqlOfLeaf DEF sql, q
    <3> QED
      BY <3>2 DEF GroupAtom, Leaf
  <2>3. K = {Text(Uuid[g])}
    BY <1>4, <1>5, <1>12, GroupKindField, GroupValuesOf, OneText
  <2>4. m <=> t = Lower(Uuid[g])
    BY <1>5, <2>3, MatchesText DEF m, t
  <2> QED
    BY <1>5, <2>2, <2>4 DEF Means, Bool
<1>13. CASE kind = "Member"
  <2>1. id # NoText /\ q = Leaf("Member", "", id)
    <3>1. q = IF id = NoText THEN Error ELSE Leaf("Member", "", id)
      BY <1>1, <1>2, <1>13 DEF GroupEquality, id
    <3> QED
      BY <3>1, FromBoolFields DEF q
  <2>2. sql = Bool(<<id, g>> \in db.members)
    <3>1. q.op \in GroupOp
      BY <2>1 DEF Leaf, GroupOp
    <3>2. sql = GroupAtom(db, g, Leaf("Member", "", id))
      BY <2>1, <3>1, GroupSqlOfLeaf DEF sql, q
    <3> QED
      BY <3>2 DEF GroupAtom, Leaf
  <2>3. K = UNION {EitherForm(u, People) : u \in MembersOf(db, g)}
    BY <1>4, <1>13, GroupKindField
  <2>4. m <=> \E u \in MembersOf(db, g) : MatchesAny(p.v, EitherForm(u, People))
    BY <2>3 DEF m, MatchesAny
  <2>5. \A u \in MembersOf(db, g) : MatchesAny(p.v, EitherForm(u, People)) <=> id = Lower(u)
    BY <2>1, MatchesForm DEF id
  <2>6. \A u \in MembersOf(db, g) : Lower(u) = u
    BY LowerFacts DEF MembersOf, Canonical
  <2>7. <<id, g>> \in db.members <=> id \in MembersOf(db, g)
    BY DEF MembersOf, TablesOK, TablesTyped, Tables
  <2>8. m <=> <<id, g>> \in db.members
    BY <2>4, <2>5, <2>6, <2>7
  <2> QED
    BY <2>2, <2>8 DEF Means, Bool
<1>14. CASE kind = "ObjectClass"
  <2>1. q = FromBool(t \in classes)
    BY <1>1, <1>2, <1>14 DEF GroupEquality, classes
  <2>2. sql = Bool(t \in classes)
    BY <2>1, GroupSqlOfBool DEF sql, q
  <2>3. classes \cap Marks = {} /\ \A c \in classes : Lower(c) = c
    BY TextAssumption, LowerFacts DEF Canonical, classes, Marks, NoText
  <2>4. K = {Text(c) : c \in classes}
    BY <1>4, <1>14, GroupKindField
  <2>5. m <=> \E c \in classes : t = Lower(c)
    BY <2>3, <2>4, MatchesTexts DEF m, t
  <2>6. t \in classes <=> m
    BY <2>3, <2>5
  <2> QED
    BY <2>2, <2>6 DEF Means, Bool
<1>15. CASE kind \in {"Dn", "EntryDn"}
  <2>1. q = IF group = NoText THEN FromBool(FALSE) ELSE Leaf("DisplayName", "", group)
    BY <1>1, <1>2, <1>15 DEF GroupEquality, group
  <2>2. Lower(group) = group
    BY IdIsLower DEF group, IsValue
  <2>3. sql = Bool(Lower(db.group[g]) = group)
    <3>1. CASE group = NoText
      <4>1. sql = Bool(FALSE)
        BY <2>1, <3>1, GroupSqlOfBool DEF sql, q
      <4> QED
        BY <1>5, <3>1, <4>1 DEF Bool
    <3>2. CASE group # NoText
      <4>1. q = Leaf("DisplayName", "", group)
        BY <2>1, <3>2
      <4>2. q.op \in GroupOp
        BY <4>1 DEF Leaf, GroupOp
      <4>3. sql = GroupAtom(db, g, Leaf("DisplayName", "", group))
        BY <4>1, <4>2, GroupSqlOfLeaf DEF sql, q
      <4>4. GroupAtom(db, g, Leaf("DisplayName", "", group)) = Bool(Lower(db.group[g]) = Lower(group))
        BY DEF GroupAtom, Leaf
      <4> QED
        BY <2>2, <4>3, <4>4
    <3> QED
      BY <3>1, <3>2
  <2>4. K = EitherForm(db.group[g], Groups)
    BY <1>4, <1>15, GroupKindField
  <2>5. m <=> group = Lower(db.group[g])
    BY <1>5, <2>4, MatchesForm DEF m, group
  <2> QED
    BY <2>3, <2>5 DEF Means, Bool
<1>16. CASE kind = "NoMatch"
  <2>1. q = FromBool(FALSE)
    BY <1>2, <1>16 DEF GroupEquality
  <2>2. sql = Bool(FALSE)
    BY <2>1, GroupSqlOfBool DEF sql, q
  <2>3. K = {}
    BY <1>4, <1>16, GroupKindField, GroupValuesOf
  <2>4. ~m
    BY <2>3 DEF m, MatchesAny
  <2> QED
    BY <2>2, <2>4 DEF Means, Bool
<1>17. CASE kind = "Attribute"
  <2> DEFINE a == p.field
  <2>1. a \in s.group
    BY <1>17, GroupKindField
  <2>2. a \in Attribute /\ ~exact
    BY <2>1, EveryoneSchema DEF Attribute
  <2>3. q = Leaf("AttributeEquality", a, <<t>>)
    <3>1. q = AttributeEquality(a, t)
      BY <1>1, <1>2, <1>17 DEF GroupEquality
    <3> QED
      BY <3>1, FromBoolFields DEF q, AttributeEquality
  <2>4. sql = Bool(db.value[g][a] = <<t>>)
    <3>1. q.op \in GroupOp
      BY <2>3 DEF Leaf, GroupOp
    <3>2. sql = GroupAtom(db, g, Leaf("AttributeEquality", a, <<t>>))
      BY <2>3, <3>1, GroupSqlOfLeaf DEF sql, q
    <3>3. GroupAtom(db, g, Leaf("AttributeEquality", a, <<t>>)) = Bool(db.value[g][a] = <<t>>)
      BY DEF GroupAtom, Leaf
    <3> QED
      BY <3>2, <3>3
  <2>5. ASSUME sql = "T" PROVE m
    <3>1. db.value[g][a] = <<t>>
      BY <2>4, <2>5 DEF Bool
    <3>2. MatchesAny(p.v, CustomValues(db, g, a, s.group))
      BY <2>1, <2>2, <3>1, AttributeMatches DEF t
    <3>3. K = CustomValues(db, g, a, s.group)
      BY <1>4, <1>17, GroupKindField, GroupValuesOf
    <3> QED
      BY <3>2, <3>3 DEF m
  <2> QED
    BY <2>2, <2>5 DEF Means
<1>18. CASE kind = "CreationDate"
  <2>1. q = Error
    BY <1>2, <1>18 DEF GroupEquality
  <2> QED
    BY <2>1, FromBoolFields DEF q
<1> QED
  BY <1>11, <1>12, <1>13, <1>14, <1>15, <1>16, <1>17, <1>18, GroupKinds

LEMMA GroupPresentMeans ==
    ASSUME NEW g, NEW p, p.op = "Present", p.field \in Field,
           p.field \notin GroupMissing(g), NEW s, s = GetSchema(db, Everyone)
    PROVE  GroupSql(p, s, g) = Bool(LeafMatches(p, GroupKeys(g)))
<1> DEFINE kind == MapGroupField(p.field, s)
           K == GroupKeys(g)[p.field]
<1>1. GroupSql(p, s, g) = Bool(kind # "NoMatch")
  <2>1. GroupNode(p, s) = FromBool(kind # "NoMatch")
    BY DEF GroupNode, Connective
  <2> QED
    BY <2>1, GroupSqlOfBool
<1>2. LeafMatches(p, GroupKeys(g)) <=> ~Unvalued(K)
  BY DEF LeafMatches
<1>3. ASSUME kind = "NoMatch"
      PROVE  K = {}
  <2>1. p.field \notin {"dn", "entrydn", "member", "objectclass"}
    BY <1>3, GroupKindField
  <2>2. K = GroupAll(db, g, p.field, s, UserId)
    BY <2>1, GroupKeyOf
  <2> QED
    BY <1>3, <2>2, GroupValuesOf
<1>4. kind # "NoMatch" => ~Unvalued(K)
  BY DEF GroupMissing
<1> HIDE DEF K
<1>5. Unvalued(K) <=> kind = "NoMatch"
  BY <1>3, <1>4 DEF Unvalued
<1> QED
  BY <1>1, <1>2, <1>5 DEF Bool

LEMMA GroupSubstringMeans ==
    ASSUME TablesOK, NEW g \in GroupId, db.group[g] # NoText, NEW p, p.op = "Substring",
           p.field \in Field, NEW s, s = GetSchema(db, Everyone), GroupNode(p, s).op # "Error"
    PROVE  Means(GroupSql(p, s, g), LeafMatches(p, GroupKeys(g)), p.field \notin Attribute)
<1> DEFINE kind == MapGroupField(p.field, s)
           L == p.v.like
           K == GroupKeys(g)[p.field]
           q == GroupNode(p, s)
           m == \E k \in K : Lower(k.text) \in L
           sql == GroupSql(p, s, g)
           exact == p.field \notin Attribute
<1>1. q = GroupSubstring(p.field, L, s)
  BY DEF GroupNode, Connective
<1>2. LeafMatches(p, GroupKeys(g)) <=> m
  BY DEF LeafMatches
<1>3. K = IF p.field \in {"dn", "entrydn"} THEN EitherForm(db.group[g], Groups)
          ELSE IF p.field = "member" THEN UNION {EitherForm(u, People) : u \in MembersOf(db, g)}
          ELSE IF p.field = "objectclass" THEN {Text(c) : c \in GroupClass \cup {"groupofnames"}}
          ELSE GroupAll(db, g, p.field, s, UserId)
  BY GroupKeyOf
<1>4. SUFFICES Means(sql, m, exact)
  BY <1>2 DEF Means, Bool
<1>5. ASSUME NEW t, K = {Text(t)}
      PROVE  m <=> Lower(t) \in L
  BY <1>5, TextFields
<1> HIDE DEF K, q, m, sql, L
<1>11. CASE kind = "DisplayName"
  <2>1. q = Leaf("DisplayNameSubString", "", L)
    BY <1>1, <1>11 DEF GroupSubstring
  <2>2. sql = Bool(Lower(db.group[g]) \in L)
    <3>1. q.op \in GroupOp
      BY <2>1 DEF Leaf, GroupOp
    <3>2. sql = GroupAtom(db, g, Leaf("DisplayNameSubString", "", L))
      BY <2>1, <3>1, GroupSqlOfLeaf DEF sql, q
    <3> QED
      BY <3>2 DEF GroupAtom, Leaf
  <2>3. K = {Text(db.group[g])}
    BY <1>3, <1>11, GroupKindField, GroupValuesOf, OneText
  <2> QED
    BY <1>5, <2>2, <2>3 DEF Means, Bool
<1>12. CASE kind = "NoMatch"
  <2>1. q = FromBool(FALSE)
    BY <1>1, <1>12 DEF GroupSubstring
  <2>2. sql = Bool(FALSE)
    BY <2>1, GroupSqlOfBool DEF sql, q
  <2>3. K = {}
    BY <1>3, <1>12, GroupKindField, GroupValuesOf
  <2> QED
    BY <2>2, <2>3 DEF Means, Bool, m
<1>13. CASE kind \notin {"DisplayName", "NoMatch"}
  <2>1. q = Error
    BY <1>1, <1>13 DEF GroupSubstring
  <2> QED
    BY <2>1, FromBoolFields DEF q
<1> QED
  BY <1>11, <1>12, <1>13

LEMMA GroupNodeMeans ==
    ASSUME TablesOK, NEW g \in GroupId, db.group[g] # NoText, NEW p, NEW s,
           s = GetSchema(db, Everyone),
           p.op \notin Connective => IsValue(p.v) /\ p.field \in Field,
           NEW q, q = GroupNode(p, s), q.op # "Error",
           NEW atom, q.op \notin Connective => atom = GroupAtom(db, g, q)
    PROVE  NodeMeans(p, q, atom, GroupKeys(g), GroupMissing(g), Attribute)
<1> DEFINE missing == GroupMissing(g)
           keys == GroupKeys(g)
<1>1. CASE p.op \in Connective
  BY <1>1, GroupNodeShape DEF NodeMeans
<1>2. CASE p.op \notin Connective
  <2>1. NodeOf(q, GroupOp)
    BY <1>2, GroupNodeShape
  <2>2. q.of = {}
    BY <2>1 DEF NodeOf
  <2>3. Combined(q, atom, {}) = GroupSql(p, s, g)
    <3>1. CASE q.op \in Connective
      BY <3>1 DEF GroupSql, Combined, Connective
    <3>2. CASE q.op \notin Connective
      BY <3>2 DEF GroupSql
    <3> QED
      BY <3>1, <3>2
  <2>4. CASE p.op = "Equality"
    <3>1. Means(GroupSql(p, s, g), LeafMatches(p, keys), p.field \notin Attribute)
      BY <1>2, <2>4, GroupEqualityMeans
    <3> QED
      BY <1>2, <2>2, <2>3, <2>4, <3>1 DEF NodeMeans, ExactNode, Means
  <2>5. CASE p.op = "Substring"
    <3>1. Means(GroupSql(p, s, g), LeafMatches(p, keys), p.field \notin Attribute)
      BY <1>2, <2>5, GroupSubstringMeans
    <3> QED
      BY <1>2, <2>2, <2>3, <2>5, <3>1 DEF NodeMeans, ExactNode, Means
  <2>6. CASE p.op = "Present"
    <3>1. p.field \notin missing => GroupSql(p, s, g) = Bool(LeafMatches(p, keys))
      BY <1>2, <2>6, GroupPresentMeans
    <3> QED
      BY <1>2, <2>2, <2>3, <2>6, <3>1 DEF NodeMeans, ExactNode
  <2>7. CASE p.op \notin {"Equality", "Substring", "Present"}
    <3>1. q = Error
      BY <1>2, <2>7 DEF GroupNode
    <3> QED
      BY <3>1, FromBoolFields
  <2> QED
    BY <2>4, <2>5, <2>6, <2>7
<1> QED
  BY <1>1, <1>2

\* And so do convert_group_filter and get_group_filter_expr.
LEMMA GroupsMeant ==
    ASSUME TablesOK, NEW g \in GroupId, db.group[g] # NoText, NEW f \in AnyFilter,
           NEW s, s = GetSchema(db, Everyone),
           NEW c, c = ConvertGroupFilter(f, s), ~IsError(c)
    PROVE  /\ Exact(f, GroupMissing(g), Attribute) =>
                 (g \in GroupsSelected(db, c) <=> Matches(f, GroupKeys(g)))
           /\ Positive(f) /\ g \in GroupsSelected(db, c) => Matches(f, GroupKeys(g))
<1> DEFINE b == [k \in Leaves(c) |-> GroupAtom(db, g, c[k])]
           missing == GroupMissing(g)
<1>1. IsFilter(f) /\ \A k \in Leaves(f) : IsValue(f[k].v) /\ f[k].field \in Field
  BY SearchAssumption
<1>2. IsFor(c, GroupOp) /\ Len(c) = Len(f) /\ DOMAIN c = 1 .. Len(f)
  BY <1>1, ConvertedGroup
<1>3. \A k \in 1 .. Len(f) : c[k] = GroupNode(f[k], s)
  BY <1>1, ConvertedGroup
<1>4. DOMAIN f = 1 .. Len(f) /\ IsFilter(c)
  BY <1>1, <1>2, FilterShape DEF IsFor
<1>5. \A k \in Leaves(c) : b[k] = GroupAtom(db, g, c[k]) /\ b[k] \in TruthValue
  BY <1>2, GroupAtomTyped DEF IsFor
<1>6. g \in GroupsSelected(db, c) <=> Value(c, b) = "T"
  BY DEF GroupsSelected, GroupCondition
<1> HIDE DEF b, missing
<1>7. ASSUME NEW k \in 1 .. Len(f)
      PROVE  NodeMeans(f[k], c[k], b[k], GroupKeys(g), missing, Attribute)
  <2>1. c[k] = GroupNode(f[k], s) /\ c[k].op # "Error"
    BY <1>2, <1>3 DEF IsError
  <2>2. f[k].op \notin Connective => IsValue(f[k].v) /\ f[k].field \in Field
    BY <1>1, <1>4 DEF Leaves
  <2>3. c[k].op \notin Connective => b[k] = GroupAtom(db, g, c[k])
    BY <1>2, <1>5 DEF Leaves
  <2> QED
    BY <2>1, <2>2, <2>3, GroupNodeMeans DEF missing
<1>8. /\ Exact(f, missing, Attribute) => (Value(c, b) = "T" <=> Matches(f, GroupKeys(g)))
      /\ Positive(f) /\ Value(c, b) = "T" => Matches(f, GroupKeys(g))
  BY <1>1, <1>2, <1>4, <1>5, <1>7, FilterMeans
<1> QED
  BY <1>6, <1>8 DEF missing

\* convert_user_filter and convert_group_filter, with the conditions of SQL
\* they lead to, select in every reachable state what a filter of LDAP says:
\* exactly, NULLs, empty texts and negations included, for the fields that are
\* compared in lower case, and nothing else on any field if there is no negation.
THEOREM FiltersMeanWhatTheySay == Spec => []FilterMeaning
<1>1. IInv => FilterMeaning
  <2> SUFFICES ASSUME IInv, request = Idle, NEW f \in AnyFilter
               PROVE  LET s == GetSchema(db, Everyone)
                          cu == ConvertUserFilter(f, s)
                          cg == ConvertGroupFilter(f, s)
                      IN  /\ \A u \in db.users :
                                Selected(f, cu, IF IsError(cu) THEN {} ELSE UsersSelected(db, cu), u,
                                         UserKeys(u), UserMissing(u),
                                         UserCased)
                          /\ \A g \in {h \in GroupId : db.group[h] # NoText} :
                                Selected(f, cg, IF IsError(cg) THEN {} ELSE GroupsSelected(db, cg), g,
                                         GroupKeys(g), GroupMissing(g), Attribute)
    BY DEF FilterMeaning
  <2> DEFINE s == GetSchema(db, Everyone)
             cu == ConvertUserFilter(f, s)
             cg == ConvertGroupFilter(f, s)
  <2>1. TablesOK
    BY DEF IInv, TablesOK
  <2>2. ASSUME NEW u \in db.users
        PROVE  Selected(f, cu, IF IsError(cu) THEN {} ELSE UsersSelected(db, cu), u,
                        UserKeys(u), UserMissing(u), UserCased)
    <3>1. ~IsError(cu) =>
             /\ Exact(f, UserMissing(u), UserCased) =>
                   (u \in UsersSelected(db, cu) <=> Matches(f, UserKeys(u)))
             /\ Positive(f) /\ u \in UsersSelected(db, cu) => Matches(f, UserKeys(u))
      BY <2>1, UsersMeant
    <3> QED
      BY <3>1 DEF Selected
  <2>3. ASSUME NEW g \in GroupId, db.group[g] # NoText
        PROVE  Selected(f, cg, IF IsError(cg) THEN {} ELSE GroupsSelected(db, cg), g,
                        GroupKeys(g), GroupMissing(g), Attribute)
    <3>1. ~IsError(cg) =>
             /\ Exact(f, GroupMissing(g), Attribute) =>
                   (g \in GroupsSelected(db, cg) <=> Matches(f, GroupKeys(g)))
             /\ Positive(f) /\ g \in GroupsSelected(db, cg) => Matches(f, GroupKeys(g))
      BY <2>1, <2>3, GroupsMeant
    <3> QED
      BY <3>1 DEF Selected
  <2> HIDE DEF s, cu, cg
  <2> QED
    BY <2>2, <2>3 DEF s, cu, cg
<1> QED
  BY <1>1, Invariance, PTL
=============================================================================
