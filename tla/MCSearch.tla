------------------------------ MODULE MCSearch -------------------------------
(* An instance of Search with two users and two groups, whose ids and names *)
(* hold capitals, blanks and commas, and with empty texts.                  *)
EXTENDS Search

MCLowerOf == [A |-> "a", G |-> "g"]
\* Blanks before names, and a comma that begins no pair.
MCPieces ==
    [t \in {" a", " g", "g,h"} |->
        CASE t = " a" -> [value |-> "a", more |-> <<>>]
          [] t = " g" -> [value |-> "g", more |-> <<>>]
          [] t = "g,h" -> [value |-> NoText, more |-> <<>>]]
MCUuid == [e \in UserId \cup GroupId |-> CASE e = "a" -> "uuid_a" [] e = "1" -> "uuid_1"
                                           [] e = "2" -> "uuid_2" [] OTHER -> "uuid_b"]
MCType == [a \in Attribute |-> "String"]
MCBaseDn == <<<<"dc", "x">>>>

Equal(field, v) == Leaf("Equality", field, v)
Atom ==
    {Equal("uid", Text("A")), Equal("mail", Text("a")), Equal("mail", Text("")),
     Equal("cn", Text("A")), Equal("cn", Text("G")), Equal("nick", Text("A")),
     Equal("objectclass", Text("person")), Equal("unknown", Text("a")),
     Equal("memberof", Dn(GroupDn(" g"))), Equal("memberof", Text("a")),
     Equal("member", Dn(UserDn("A"))), Equal("dn", Dn(UserDn(" a"))),
     Equal("dn", Dn(GroupDn("G"))), Equal("entrydn", Dn(GroupDn("g,h"))),
     Leaf("Present", "mail", Text("")), Leaf("Present", "cn", Text("")),
     Leaf("Present", "memberof", Text("")), Leaf("Present", "unknown", Text("")),
     Leaf("Substring", "cn", Pattern({"a", "g"})), Leaf("Substring", "uid", Pattern({" a"})),
     Leaf("Substring", "mail", Pattern({"a"})), Leaf("Substring", "nick", Pattern({"a"}))}

\* Atoms, their negations, and negated disjunctions; a conjunction.
MCFilters ==
    LET member == Equal("memberof", Dn(GroupDn("g"))) IN
    {<<Equal("mail", Text("A")), Node("Not", {1}), member, Node("And", {2, 3})>>}
    \cup UNION {{<<p>>, <<p, Node("Not", {1})>>, <<p, member, Node("Or", {1, 2}), Node("Not", {3})>>}
                : p \in Atom}

\* An error for users while the caller sees the attribute, never for groups.
MCFewFilters ==
    {<<Leaf("Substring", "nick", Pattern({"a"})), Equal("memberof", Dn(GroupDn("g"))),
       Node("Not", {2}), Node("Or", {1, 3})>>}

MCRequestFilters ==
    {<<Equal("nick", Text("A")), Leaf("MemberOf", "", Text("G")), Node("Not", {2}),
       Node("Or", {1, 3})>>,
     <<Leaf("Several", "", Text(""))>>}

MCFewBases == {BaseDn, GroupDn("g,h")}
MCRequested == {{"member"}}
=============================================================================
