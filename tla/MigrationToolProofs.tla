-------------------------- MODULE MigrationToolProofs -------------------------
(* Proofs about MigrationTool, for any entries of the LDAP server, any      *)
(* contents of LLDAP and any number of changes by others.                   *)
EXTENDS MigrationTool, SequenceTheorems, TLAPS

Lowered == {Lower[t] : t \in Text}
Phases == {"connect", "users", "groups", "members", "done", "failed"}
Fetches == {"list_users", "list_groups", "get_users", "get_groups"}

-----------------------------------------------------------------------------
(* The inductive invariant.                                                 *)

IsLists(l) ==
    l = [have |-> l.have, ldapUsers |-> l.ldapUsers, ldapGroups |-> l.ldapGroups,
         knownUsers |-> l.knownUsers, knownGroups |-> l.knownGroups]

\* What LLDAP keeps, and the shape of the lists.
Types ==
    /\ users \subseteq Lowered /\ groups \in Seq(Text \cup {""})
    /\ phase \in Phases
    /\ IsLists(lists) /\ lists.knownUsers \subseteq Lowered
    /\ \A i \in DOMAIN lists.ldapUsers : lists.ldapUsers[i].id \in Text
    /\ \A i \in DOMAIN lists.ldapGroups : lists.ldapGroups[i].name \in Text
    /\ fetch \in Seq(Fetches)

\* A list that a phase has used is not fetched again.
Course ==
    /\ "users" \in lists.have =>
          \/ phase \in {"groups", "members", "done", "failed"}
          \/ phase = "users" /\ pc \in {"add", "choose"}
    /\ "groups" \in lists.have =>
          \/ phase \in {"members", "done", "failed"}
          \/ phase = "groups" /\ pc \in {"add", "choose"}
    /\ "members" \in lists.have =>
          \/ phase \in {"done", "failed"}
          \/ phase = "members" /\ pc \in {"add", "choose"}
    /\ \A k \in DOMAIN fetch :
          /\ fetch[k] = "get_users" => "users" \notin lists.have
          /\ fetch[k] = "get_groups" => "groups" \notin lists.have
    /\ IF pc \in {"add", "choose"} THEN fetch = <<>> ELSE todo = {}
    /\ phase = "users" => \A p \in todo : p[1] \in DOMAIN lists.ldapUsers
    /\ phase = "groups" => \A p \in todo : p[1] \in DOMAIN lists.ldapGroups

UserThere(u) == u \in users \/ <<"user", u>> \in gone
GroupThere(n) == NameTaken(n) \/ <<"group", Lower[n]>> \in gone
MemberThere(m) == m \in members \/ m \in gone

\* What the tool knows is or was so.
KnownGroup(n, g) ==
    /\ n # "" /\ g.id \in DOMAIN groups
    /\ groups[g.id] = n \/ <<"group", Lower[n]>> \in gone
    /\ \A u \in g.users : MemberThere(<<u, g.id>>)

Known ==
    /\ \A u \in lists.knownUsers : UserThere(u)
    /\ \A n \in DOMAIN lists.knownGroups : KnownGroup(n, lists.knownGroups[n])

\* What is not there is still to do, unless something was given up.
UsersDone ==
    "users" \in lists.have \ skipped /\ phase # "failed" =>
        \A i \in DOMAIN lists.ldapUsers :
            UserThere(Lower[lists.ldapUsers[i].id]) \/ (phase = "users" /\ <<i, 0>> \in todo)

GroupsDone ==
    "groups" \in lists.have \ skipped /\ phase # "failed" =>
        \A i \in DOMAIN lists.ldapGroups :
            GroupThere(lists.ldapGroups[i].name) \/ (phase = "groups" /\ <<i, 0>> \in todo)

Settled(l, p, id) ==
    GroupAt(l, p).name \in DOMAIN l.knownGroups /\ id \in l.knownUsers /\ Lower[id] = id =>
        MemberThere(<<id, l.knownGroups[GroupAt(l, p).name].id>>)

MembersDone ==
    "members" \in lists.have \ skipped /\ phase # "failed" =>
        \A p \in MemberPlaces(lists) :
            \/ \A id \in UserAt(lists, p) : Settled(lists, p, id)
            \/ phase = "members" /\ p \in todo

IInv == Types /\ Course /\ Known /\ UsersDone /\ GroupsDone /\ MembersDone

-----------------------------------------------------------------------------
(* What the steps do to the tool.                                           *)

Still == UNCHANGED tool /\ UNCHANGED skipped

Connecting ==
    /\ phase = "connect" /\ phase' \in {"connect", "users", "done", "failed"}
    /\ UNCHANGED <<lists, skipped>> /\ fetch' \in {fetch, <<>>}
    /\ {pc, pc'} \cap {"add", "choose"} = {} /\ todo' \in {todo, {}}

Asked ==
    /\ Working /\ pc' = "fetch"
    /\ pc = "ask" /\ UNCHANGED <<phase, lists, todo, skipped>>
    /\ fetch' = CASE phase = "users" -> <<"list_users", "get_users">>
                  [] phase = "groups" -> <<"list_groups", "get_groups">>
                  [] OTHER -> Missing(lists)

Fetching(which, l) ==
    /\ Working /\ pc = "fetch" /\ fetch # <<>> /\ Head(fetch) = which /\ fetch' = Tail(fetch)
    /\ lists' = l /\ UNCHANGED <<phase, pc, todo, skipped>>

Failing == Working /\ phase' = "failed" /\ UNCHANGED <<pc, fetch, lists, todo, skipped>>

Moving ==
    /\ Working /\ phase' = After[phase] /\ pc' = "ask" /\ todo' = {} /\ fetch' = <<>>
    /\ UNCHANGED lists /\ skipped \subseteq skipped'
    /\ pc = "ask" \/ (pc = "add" /\ todo = {})

Sent(p, l) ==
    /\ pc = "add" /\ p \in todo /\ todo' = todo \ {p} /\ lists' = l
    /\ UNCHANGED <<phase, pc, fetch, skipped>>

Troubled(p) ==
    /\ Working /\ pc \in {"add", "choose"} /\ pc' \in {"add", "choose"}
    /\ UNCHANGED <<phase, fetch, lists>>
    /\ \/ UNCHANGED <<todo, skipped>>
       \/ todo' = todo \ {p} /\ skipped' = skipped \cup {phase}

LEMMA ErrorStep ==
  ASSUME NEW p, Working, pc = "add", UNCHANGED <<phase, fetch>>, Error(p)
  PROVE  Troubled(p)
  BY DEF Error, SkipsQuietly, GivesUp, Troubled

\* A request is answered, or there is trouble with it.
LEMMA SendingStep ==
  ASSUME NEW p \in todo
  PROVE  /\ AddUser(p) =>
              LET id == lists.ldapUsers[p[1]].id IN
              /\ phase = "users" /\ UNCHANGED <<groups, members, gone>>
              /\ \/ users' = users \cup {Lower[id]} /\ Sent(p, NotedUser(id))
                 \/ users' \in {users, users \cup {Lower[id]}} /\ Troubled(p)
         /\ AddGroup(p) =>
              LET n == lists.ldapGroups[p[1]].name IN
              /\ phase = "groups" /\ UNCHANGED <<users, members, gone>>
              /\ \/ groups' = Append(groups, n) /\ Sent(p, NotedGroup(n, Len(groups) + 1))
                 \/ groups' \in {groups, Append(groups, n)} /\ Troubled(p)
         /\ AddMember(p) => \E id \in UserAt(lists, p) :
              LET m == <<Lower[id], lists.knownGroups[GroupAt(lists, p).name].id>> IN
              /\ phase = "members" /\ UNCHANGED <<users, groups, gone>>
              /\ \/ members' = members \cup {m} /\ Sent(p, lists)
                 \/ members' \in {members, members \cup {m}} /\ Troubled(p)
<1>1. ASSUME AddUser(p)
      PROVE  LET id == lists.ldapUsers[p[1]].id IN
             /\ phase = "users" /\ UNCHANGED <<groups, members, gone>>
             /\ \/ users' = users \cup {Lower[id]} /\ Sent(p, NotedUser(id))
                \/ users' \in {users, users \cup {Lower[id]}} /\ Troubled(p)
  <2> DEFINE id == lists.ldapUsers[p[1]].id
             l == NotedUser(id)
             eff == users' = users \cup {Lower[id]} /\ UNCHANGED <<groups, members>>
  <2>1. /\ phase = "users" /\ pc = "add" /\ UNCHANGED <<phase, fetch, gone>>
        /\ \/ eff /\ lists' = l /\ todo' = todo \ {p} /\ UNCHANGED <<pc, skipped>>
           \/ (eff \/ UNCHANGED server) /\ Error(p)
    BY <1>1 DEF AddUser, Post, Adding, history
  <2>2. Working
    BY <2>1 DEF Working
  <2> HIDE DEF id, l
  <2>3. CASE eff /\ lists' = l /\ todo' = todo \ {p} /\ UNCHANGED <<pc, skipped>>
    <3>1. Sent(p, l)
      BY <2>1, <2>3 DEF Sent
    <3> QED
      BY <2>1, <2>3, <3>1 DEF id, l
  <2>4. CASE (eff \/ UNCHANGED server) /\ Error(p)
    <3>1. Troubled(p)
      BY <2>1, <2>2, <2>4, ErrorStep
    <3> QED
      BY <2>1, <2>4, <3>1 DEF server, id
  <2> QED
    BY <2>1, <2>3, <2>4
<1>2. ASSUME AddGroup(p)
      PROVE  LET n == lists.ldapGroups[p[1]].name IN
             /\ phase = "groups" /\ UNCHANGED <<users, members, gone>>
             /\ \/ groups' = Append(groups, n) /\ Sent(p, NotedGroup(n, Len(groups) + 1))
                \/ groups' \in {groups, Append(groups, n)} /\ Troubled(p)
  <2> DEFINE n == lists.ldapGroups[p[1]].name
             l == NotedGroup(n, Len(groups) + 1)
             eff == groups' = Append(groups, n) /\ UNCHANGED <<users, members>>
  <2>1. /\ phase = "groups" /\ pc = "add" /\ UNCHANGED <<phase, fetch, gone>>
        /\ \/ eff /\ lists' = l /\ todo' = todo \ {p} /\ UNCHANGED <<pc, skipped>>
           \/ (eff \/ UNCHANGED server) /\ Error(p)
    BY <1>2 DEF AddGroup, Post, Adding, history
  <2>2. Working
    BY <2>1 DEF Working
  <2> HIDE DEF n, l
  <2>3. CASE eff /\ lists' = l /\ todo' = todo \ {p} /\ UNCHANGED <<pc, skipped>>
    <3>1. Sent(p, l)
      BY <2>1, <2>3 DEF Sent
    <3> QED
      BY <2>1, <2>3, <3>1 DEF n, l
  <2>4. CASE (eff \/ UNCHANGED server) /\ Error(p)
    <3>1. Troubled(p)
      BY <2>1, <2>2, <2>4, ErrorStep
    <3> QED
      BY <2>1, <2>4, <3>1 DEF server, n
  <2> QED
    BY <2>1, <2>3, <2>4
<1>3. ASSUME AddMember(p)
      PROVE  \E id \in UserAt(lists, p) :
              LET m == <<Lower[id], lists.knownGroups[GroupAt(lists, p).name].id>> IN
              /\ phase = "members" /\ UNCHANGED <<users, groups, gone>>
              /\ \/ members' = members \cup {m} /\ Sent(p, lists)
                 \/ members' \in {members, members \cup {m}} /\ Troubled(p)
  <2> DEFINE i == lists.knownGroups[GroupAt(lists, p).name].id
  <2>1. PICK id \in UserAt(lists, p) :
        /\ phase = "members" /\ pc = "add" /\ UNCHANGED <<phase, fetch, gone>>
        /\ \/ /\ members' = members \cup {<<Lower[id], i>>} /\ UNCHANGED <<users, groups>>
              /\ lists' = lists /\ todo' = todo \ {p} /\ UNCHANGED <<pc, skipped>>
           \/ /\ \/ members' = members \cup {<<Lower[id], i>>} /\ UNCHANGED <<users, groups>>
                 \/ UNCHANGED server
              /\ Error(p)
    BY <1>3 DEF AddMember, Post, Adding, history
  <2> DEFINE m == <<Lower[id], i>>
             eff == members' = members \cup {m} /\ UNCHANGED <<users, groups>>
  <2>2. Working
    BY <2>1 DEF Working
  <2> SUFFICES /\ UNCHANGED <<users, groups, gone>>
               /\ \/ members' = members \cup {m} /\ Sent(p, lists)
                  \/ members' \in {members, members \cup {m}} /\ Troubled(p)
    BY <2>1
  <2> HIDE DEF i
  <2>3. CASE eff /\ lists' = lists /\ todo' = todo \ {p} /\ UNCHANGED <<pc, skipped>>
    <3>1. Sent(p, lists)
      BY <2>1, <2>3 DEF Sent
    <3> QED
      BY <2>1, <2>3, <3>1
  <2>4. CASE (eff \/ UNCHANGED server) /\ Error(p)
    <3>1. Troubled(p)
      BY <2>1, <2>2, <2>4, ErrorStep
    <3> QED
      BY <2>1, <2>4, <3>1 DEF server
  <2> QED
    BY <2>1, <2>3, <2>4
<1> QED
  BY <1>1, <1>2, <1>3

\* The steps of the tool's other operations.
LEMMA OtherSteps ==
  /\ (\E yes \in BOOLEAN : Ready(yes)) \/ ConnectLdap \/ ConnectLldap =>
        Connecting /\ UNCHANGED server /\ UNCHANGED gone
  /\ \A yes \in BOOLEAN :
        Ask(yes) => (Asked \/ Moving) /\ UNCHANGED server /\ UNCHANGED gone
  /\ FetchFails => Failing /\ UNCHANGED server /\ UNCHANGED gone
  /\ EndPhase => Moving /\ UNCHANGED server /\ UNCHANGED gone
  /\ \A which, l :
        Fetched(which, l) => Fetching(which, l) /\ UNCHANGED server /\ UNCHANGED gone
  /\ \A choice, p :
        Choose(choice, p) => (Troubled(p) \/ Failing) /\ UNCHANGED server /\ UNCHANGED gone
<1>1. (\E yes \in BOOLEAN : Ready(yes)) \/ ConnectLdap \/ ConnectLldap =>
        Connecting /\ UNCHANGED server /\ UNCHANGED gone
  <2>1. ASSUME NEW yes \in BOOLEAN, Ready(yes)
        PROVE  Connecting /\ UNCHANGED server /\ UNCHANGED gone
    BY <2>1 DEF Ready, Connecting, server, history
  <2>2. CASE ConnectLdap
    BY <2>2 DEF ConnectLdap, Connecting, server, history
  <2>3. CASE ConnectLldap
    <3>1. After["connect"] = "users"
      BY DEF After
    <3> QED
      BY <2>3, <3>1 DEF ConnectLldap, NextPhase, Connecting, server, history
  <2> QED
    BY <2>1, <2>2, <2>3
<1>2. ASSUME NEW yes \in BOOLEAN
      PROVE  Ask(yes) => (Asked \/ Moving) /\ UNCHANGED server /\ UNCHANGED gone
  <2>1. CASE yes
    BY <2>1 DEF Ask, Asked, server, history
  <2>2. CASE ~yes
    BY <2>2 DEF Ask, NextPhase, Moving, server, history
  <2> QED
    BY <2>1, <2>2
<1>3. FetchFails => Failing /\ UNCHANGED server /\ UNCHANGED gone
  BY DEF FetchFails, Fail, Failing, server, history
<1>4. EndPhase => Moving /\ UNCHANGED server /\ UNCHANGED gone
  BY DEF EndPhase, NextPhase, Moving, server, history
<1>5. ASSUME NEW which, NEW l
      PROVE  Fetched(which, l) => Fetching(which, l) /\ UNCHANGED server /\ UNCHANGED gone
  BY DEF Fetched, Fetching, server, history
<1>6. ASSUME NEW choice, NEW p
      PROVE  Choose(choice, p) => (Troubled(p) \/ Failing) /\ UNCHANGED server /\ UNCHANGED gone
  <2> SUFFICES ASSUME Choose(choice, p)
               PROVE  (Troubled(p) \/ Failing) /\ UNCHANGED server /\ UNCHANGED gone
    OBVIOUS
  <2>1. Working /\ pc = "choose" /\ UNCHANGED <<fetch, lists, server, history>>
    BY DEF Choose
  <2>2. CASE choice \in {"Skip", "Skip all", "Skip group"}
    <3>1. pc' = "add" /\ GivesUp(p) /\ phase' = phase
      BY <2>2 DEF Choose
    <3> QED
      BY <2>1, <3>1 DEF Troubled, GivesUp, history
  <2>3. CASE choice = "Retry"
    <3>1. pc' = "add" /\ UNCHANGED <<phase, todo, skipped>>
      BY <2>3 DEF Choose
    <3> QED
      BY <2>1, <3>1 DEF Troubled, history
  <2>4. CASE choice = "Abort"
    BY <2>1, <2>4 DEF Choose, Failing, history
  <2> QED
    BY <2>2, <2>3, <2>4 DEF Choose
<1> QED
  BY <1>1, <1>2, <1>3, <1>4, <1>5, <1>6

\* What has been in LLDAP is there, or others have taken it away.
Keeps ==
    /\ users' \subseteq Lowered /\ groups' \in Seq(Text \cup {""})
    /\ gone \subseteq gone'
    /\ \A u \in users : u \in users' \/ <<"user", u>> \in gone'
    /\ \A m \in members : m \in members' \/ m \in gone'
    /\ \A i \in DOMAIN groups :
          i \in DOMAIN groups' /\ (groups'[i] = groups[i] \/ <<"group", Lower[groups[i]]>> \in gone')

LEMMA SeqDomain ==
  ASSUME NEW S, NEW s \in Seq(S)
  PROVE  DOMAIN s = 1 .. Len(s) /\ Len(s) \in Nat
  OBVIOUS

LEMMA Appended ==
  ASSUME NEW S, NEW s \in Seq(S), NEW x \in S
  PROVE  /\ Append(s, x) \in Seq(S)
         /\ \A i \in DOMAIN s : i \in DOMAIN Append(s, x) /\ Append(s, x)[i] = s[i]
         /\ Len(s) + 1 \in DOMAIN Append(s, x) /\ Append(s, x)[Len(s) + 1] = x
<1>1. /\ Append(s, x) \in Seq(S) /\ Len(Append(s, x)) = Len(s) + 1
      /\ \A i \in 1 .. Len(s) : Append(s, x)[i] = s[i]
      /\ Append(s, x)[Len(s) + 1] = x
  BY AppendProperties
<1>2. /\ Len(s) \in Nat /\ DOMAIN s = 1 .. Len(s)
      /\ DOMAIN Append(s, x) = 1 .. Len(Append(s, x))
  BY <1>1, SeqDomain
<1> QED
  BY <1>1, <1>2

LEMMA Replaced ==
  ASSUME NEW S, NEW s \in Seq(S), NEW i \in DOMAIN s, NEW x \in S
  PROVE  LET r == [s EXCEPT ![i] = x]
         IN  /\ r \in Seq(S) /\ DOMAIN r = DOMAIN s
             /\ \A j \in DOMAIN s : j # i => r[j] = s[j]
<1>1. DOMAIN s = 1 .. Len(s)
  BY SeqDomain
<1>2. [s EXCEPT ![i] = x] \in Seq(S)
  BY <1>1, ExceptSeq
<1> QED
  BY <1>2

LEMMA ServerStep == Types /\ Course /\ [Next]_vars => Keeps
<1> SUFFICES ASSUME Types, Course, [Next]_vars PROVE Keeps
  OBVIOUS
<1>0. users \subseteq Lowered /\ groups \in Seq(Text \cup {""}) /\ \A t \in Text : Lower[t] \in Lowered
  BY DEF Types, Lowered
<1>a. ASSUME NEW n \in Text
      PROVE  /\ Append(groups, n) \in Seq(Text \cup {""})
             /\ \A i \in DOMAIN groups :
                   i \in DOMAIN Append(groups, n) /\ Append(groups, n)[i] = groups[i]
  <2> DEFINE S == Text \cup {""}
  <2>1. groups \in Seq(S) /\ n \in S
    BY <1>0
  <2> HIDE DEF S
  <2>2. /\ Append(groups, n) \in Seq(S)
        /\ \A i \in DOMAIN groups :
              i \in DOMAIN Append(groups, n) /\ Append(groups, n)[i] = groups[i]
    BY <2>1, Appended
  <2> QED
    BY <2>2 DEF S
<1>1. ASSUME UNCHANGED server, UNCHANGED gone
      PROVE  Keeps
  BY <1>0, <1>1 DEF Keeps, server
<1>2. ASSUME NEW p \in todo, AddUser(p)
      PROVE  Keeps
  <2> DEFINE id == lists.ldapUsers[p[1]].id
  <2>1. phase = "users" /\ UNCHANGED <<groups, members, gone>> /\ users' \in {users, users \cup {Lower[id]}}
    BY <1>2, SendingStep
  <2>2. id \in Text
    BY <2>1 DEF Course, Types
  <2> QED
    BY <1>0, <2>1, <2>2 DEF Keeps
<1>3. ASSUME NEW p \in todo, AddGroup(p)
      PROVE  Keeps
  <2> DEFINE n == lists.ldapGroups[p[1]].name
  <2>1. phase = "groups" /\ UNCHANGED <<users, members, gone>> /\ groups' \in {groups, Append(groups, n)}
    BY <1>3, SendingStep
  <2>2. n \in Text
    BY <2>1 DEF Course, Types
  <2> HIDE DEF n
  <2> QED
    BY <1>0, <1>a, <2>1, <2>2 DEF Keeps
<1>4. ASSUME NEW p \in todo, AddMember(p)
      PROVE  Keeps
  <2>1. UNCHANGED <<users, groups, gone>> /\ members \subseteq members'
    BY <1>4, SendingStep
  <2> QED
    BY <1>0, <2>1 DEF Keeps
<1>5. CASE Stopped \/ UNCHANGED vars
  <2>1. UNCHANGED server /\ UNCHANGED gone
    BY <1>5 DEF Stopped, vars, server, history
  <2> QED
    BY <1>1, <2>1
<1>6. ASSUME NEW u \in Text, OtherCreatesUser(u) \/ OtherDeletesUser(u) \/ OtherCreatesGroup(u)
      PROVE  Keeps
  <2>1. CASE OtherCreatesUser(u)
    BY <1>0, <2>1 DEF OtherCreatesUser, Keeps
  <2>2. CASE OtherDeletesUser(u)
    BY <1>0, <2>2 DEF OtherDeletesUser, Keeps
  <2>3. CASE OtherCreatesGroup(u)
    BY <1>0, <1>a, <2>3 DEF OtherCreatesGroup, Keeps
  <2> QED
    BY <1>6, <2>1, <2>2, <2>3
<1>7. ASSUME NEW i \in DOMAIN groups, OtherDeletesGroup(i)
      PROVE  Keeps
  <2>1. /\ groups' = [groups EXCEPT ![i] = ""] /\ UNCHANGED users
        /\ gone \cup {<<"group", Lower[groups[i]]>>} \subseteq gone'
        /\ \A m \in members : m \in members' \/ m \in gone'
    BY <1>7 DEF OtherDeletesGroup
  <2>2. groups' \in Seq(Text \cup {""}) /\ DOMAIN groups' = DOMAIN groups
        /\ \A j \in DOMAIN groups : j # i => groups'[j] = groups[j]
    BY <1>0, <2>1, Replaced
  <2> QED
    BY <1>0, <2>1, <2>2 DEF Keeps
<1>8. ASSUME NEW i \in DOMAIN groups, NEW n \in Text, OtherRenames(i, n)
      PROVE  Keeps
  <2>1. /\ groups' = [groups EXCEPT ![i] = n] /\ UNCHANGED <<users, members>>
        /\ gone' = gone \cup {<<"group", Lower[groups[i]]>>}
    BY <1>8 DEF OtherRenames
  <2>2. groups' \in Seq(Text \cup {""}) /\ DOMAIN groups' = DOMAIN groups
        /\ \A j \in DOMAIN groups : j # i => groups'[j] = groups[j]
    BY <1>0, <2>1, Replaced
  <2> QED
    BY <1>0, <2>1, <2>2 DEF Keeps
<1>9. ASSUME NEW m \in members, OtherRemoves(m)
      PROVE  Keeps
  BY <1>0, <1>9 DEF OtherRemoves, Keeps
<1>b. ASSUME NEW i \in DOMAIN groups, NEW u \in Text, OtherAdds(u, i)
      PROVE  Keeps
  BY <1>0, <1>b DEF OtherAdds, Keeps
<1>10. ASSUME NEW yes \in BOOLEAN, Confirm(yes)
       PROVE  Keeps
  BY <1>1, <1>10 DEF Confirm, history
<1>11. ASSUME \E which, l : Fetched(which, l)
       PROVE  Keeps
  BY <1>1, <1>11, OtherSteps
<1>12. ListUsers \/ ListGroups \/ (\E ou \in DOMAIN LdapUsers : GetUsers(ou))
          \/ (\E ou \in DOMAIN LdapGroups : GetGroups(ou)) => \E which, l : Fetched(which, l)
  BY DEF ListUsers, ListGroups, GetUsers, GetGroups
<1>13. CASE Next
  <2>1. CASE ConnectLdap \/ ConnectLldap \/ FetchFails \/ EndPhase
    BY <1>1, <2>1, OtherSteps
  <2>2. ASSUME NEW yes \in BOOLEAN, Ready(yes) \/ Ask(yes)
        PROVE  Keeps
    BY <1>1, <2>2, OtherSteps
  <2>3. ASSUME NEW choice, NEW p, Choose(choice, p)
        PROVE  Keeps
    BY <1>1, <2>3, OtherSteps
  <2>4. CASE Sending
    BY <1>2, <1>3, <1>4, <2>4 DEF Sending
  <2> QED
    BY <1>5, <1>6, <1>7, <1>8, <1>9, <1>b, <1>10, <1>11, <1>12, <1>13, <2>1, <2>2, <2>3, <2>4
       DEF Next
<1> QED
  BY <1>5, <1>13

-----------------------------------------------------------------------------
(* The lists.                                                               *)

LEMMA SetHave ==
  ASSUME NEW l, IsLists(l), NEW x, NEW m, m = [l EXCEPT !.have = x]
  PROVE  /\ IsLists(m) /\ m.have = x /\ m.ldapUsers = l.ldapUsers /\ m.ldapGroups = l.ldapGroups
         /\ m.knownUsers = l.knownUsers /\ m.knownGroups = l.knownGroups
  BY DEF IsLists

LEMMA SetLdapUsers ==
  ASSUME NEW l, IsLists(l), NEW x, NEW m, m = [l EXCEPT !.ldapUsers = x]
  PROVE  /\ IsLists(m) /\ m.have = l.have /\ m.ldapUsers = x /\ m.ldapGroups = l.ldapGroups
         /\ m.knownUsers = l.knownUsers /\ m.knownGroups = l.knownGroups
  BY DEF IsLists

LEMMA SetLdapGroups ==
  ASSUME NEW l, IsLists(l), NEW x, NEW m, m = [l EXCEPT !.ldapGroups = x]
  PROVE  /\ IsLists(m) /\ m.have = l.have /\ m.ldapUsers = l.ldapUsers /\ m.ldapGroups = x
         /\ m.knownUsers = l.knownUsers /\ m.knownGroups = l.knownGroups
  BY DEF IsLists

LEMMA SetKnownUsers ==
  ASSUME NEW l, IsLists(l), NEW x, NEW m, m = [l EXCEPT !.knownUsers = x]
  PROVE  /\ IsLists(m) /\ m.have = l.have /\ m.ldapUsers = l.ldapUsers /\ m.ldapGroups = l.ldapGroups
         /\ m.knownUsers = x /\ m.knownGroups = l.knownGroups
  BY DEF IsLists

LEMMA SetKnownGroups ==
  ASSUME NEW l, IsLists(l), NEW x, NEW m, m = [l EXCEPT !.knownGroups = x]
  PROVE  /\ IsLists(m) /\ m.have = l.have /\ m.ldapUsers = l.ldapUsers /\ m.ldapGroups = l.ldapGroups
         /\ m.knownUsers = l.knownUsers /\ m.knownGroups = x
  BY DEF IsLists

ListedGroups ==
    [n \in Range(groups) \ {""} |->
        LET i == CHOOSE i \in DOMAIN groups : groups[i] = n
        IN  [id |-> i, users |-> {u \in users : <<u, i>> \in members}]]

\* The lists that are fetched.
Listing ==
    \/ Fetching("list_users", [lists EXCEPT !.knownUsers = users])
    \/ Fetching("list_groups", [lists EXCEPT !.knownGroups = ListedGroups])
    \/ \E us : /\ \A i \in DOMAIN us : us[i].id \in Text
               /\ Fetching("get_users", [lists EXCEPT !.ldapUsers = us])
    \/ \E gs : /\ \A i \in DOMAIN gs : gs[i].name \in Text
               /\ Fetching("get_groups", [lists EXCEPT !.ldapGroups = gs])

UserSent(p) ==
    LET id == lists.ldapUsers[p[1]].id IN
    phase = "users" /\ Sent(p, NotedUser(id)) /\ Lower[id] \in users'
GroupSent(p) ==
    LET n == lists.ldapGroups[p[1]].name IN
    phase = "groups" /\ Sent(p, NotedGroup(n, Len(groups) + 1)) /\ groups' = Append(groups, n)
MemberSent(p) ==
    /\ phase = "members" /\ Sent(p, lists)
    /\ \E id \in UserAt(lists, p) :
          <<Lower[id], lists.knownGroups[GroupAt(lists, p).name].id>> \in members'

LEMMA ToolStep ==
  ASSUME [Next]_vars
  PROVE  \/ Still \/ Connecting \/ Asked \/ Failing \/ Moving \/ Listing
         \/ \E yes \in BOOLEAN : Confirm(yes)
         \/ \E p \in todo : Troubled(p) \/ UserSent(p) \/ GroupSent(p) \/ MemberSent(p)
<1> DEFINE Goal == \/ Still \/ Connecting \/ Asked \/ Failing \/ Moving \/ Listing
                   \/ \E yes \in BOOLEAN : Confirm(yes)
                   \/ \E p \in todo : Troubled(p) \/ UserSent(p) \/ GroupSent(p) \/ MemberSent(p)
<1>1. CASE \/ Stopped \/ UNCHANGED vars
           \/ (\E u \in Text : OtherCreatesUser(u) \/ OtherDeletesUser(u) \/ OtherCreatesGroup(u))
           \/ (\E i \in DOMAIN groups : OtherDeletesGroup(i)
                  \/ (\E n \in Text : OtherRenames(i, n) \/ OtherAdds(n, i)))
           \/ (\E m \in members : OtherRemoves(m))
  <2>1. Still
    BY <1>1 DEF Still, Stopped, vars, tool, OtherCreatesUser, OtherDeletesUser, OtherCreatesGroup,
                OtherDeletesGroup, OtherRenames, OtherAdds, OtherRemoves, Other
  <2> QED
    BY <2>1
<1>2. CASE ConnectLdap \/ ConnectLldap \/ FetchFails \/ EndPhase
  BY <1>2, OtherSteps
<1>3. ASSUME NEW yes \in BOOLEAN, Ready(yes) \/ Ask(yes)
      PROVE  Goal
  BY <1>3, OtherSteps
<1>4. ASSUME NEW choice, NEW p \in todo, Choose(choice, p)
      PROVE  Goal
  BY <1>4, OtherSteps
<1>5. CASE ListUsers \/ ListGroups
  <2>1. \/ Fetched("list_users", [lists EXCEPT !.knownUsers = users])
        \/ Fetched("list_groups", [lists EXCEPT !.knownGroups = ListedGroups])
    BY <1>5 DEF ListUsers, ListGroups, ListedGroups
  <2>2. Listing
    BY <2>1, OtherSteps DEF Listing
  <2> QED
    BY <2>2
<1>6. ASSUME NEW ou \in DOMAIN LdapUsers, GetUsers(ou)
      PROVE  Goal
  <2> DEFINE us == Converted(LdapUsers[ou], UserOf)
  <2>1. (\A i \in DOMAIN us : us[i].ok) /\ Fetched("get_users", [lists EXCEPT !.ldapUsers = us])
    BY <1>6 DEF GetUsers
  <2>2. \A i \in DOMAIN us : us[i].id \in Text
    BY <2>1, EntriesAssumption DEF Converted
  <2> HIDE DEF us
  <2>3. Fetching("get_users", [lists EXCEPT !.ldapUsers = us])
    BY <2>1, OtherSteps
  <2>4. Listing
    BY <2>2, <2>3 DEF Listing
  <2> QED
    BY <2>4
<1>7. ASSUME NEW ou \in DOMAIN LdapGroups, GetGroups(ou)
      PROVE  Goal
  <2> DEFINE gs == Converted(LdapGroups[ou], GroupOf)
  <2>1. (\A i \in DOMAIN gs : gs[i].ok) /\ Fetched("get_groups", [lists EXCEPT !.ldapGroups = gs])
    BY <1>7 DEF GetGroups
  <2>2. \A i \in DOMAIN gs : gs[i].name \in Text
    BY <2>1, EntriesAssumption DEF Converted
  <2> HIDE DEF gs
  <2>3. Fetching("get_groups", [lists EXCEPT !.ldapGroups = gs])
    BY <2>1, OtherSteps
  <2>4. Listing
    BY <2>2, <2>3 DEF Listing
  <2> QED
    BY <2>4
<1>8. ASSUME NEW p \in todo, AddUser(p) \/ AddGroup(p) \/ AddMember(p)
      PROVE  Goal
  <2>1. CASE AddUser(p)
    <3>1. Troubled(p) \/ UserSent(p)
      BY <2>1, SendingStep DEF UserSent
    <3> QED
      BY <3>1
  <2>2. CASE AddGroup(p)
    <3>1. Troubled(p) \/ GroupSent(p)
      BY <2>2, SendingStep DEF GroupSent
    <3> QED
      BY <3>1
  <2>3. CASE AddMember(p)
    <3>1. Troubled(p) \/ MemberSent(p)
      BY <2>3, SendingStep DEF MemberSent
    <3> QED
      BY <3>1
  <2> QED
    BY <1>8, <2>1, <2>2, <2>3
<1> QED
  BY <1>1, <1>2, <1>3, <1>4, <1>5, <1>6, <1>7, <1>8 DEF Next, Sending

-----------------------------------------------------------------------------
(* What a step keeps.                                                       *)

\* UserThere, GroupThere, MemberThere and KnownGroup after the step.
UserThere1(u) == u \in users' \/ <<"user", u>> \in gone'
MemberThere1(m) == m \in members' \/ m \in gone'
GroupThere1(n) ==
    \/ \E i \in DOMAIN groups' : groups'[i] # "" /\ Lower[groups'[i]] = Lower[n]
    \/ <<"group", Lower[n]>> \in gone'
KnownGroup1(n, g) ==
    /\ n # "" /\ g.id \in DOMAIN groups'
    /\ groups'[g.id] = n \/ <<"group", Lower[n]>> \in gone'
    /\ \A u \in g.users : MemberThere1(<<u, g.id>>)

\* What is there, or others have taken away, stays so.
LEMMA UserKept ==
  ASSUME Keeps, NEW u, UserThere(u)
  PROVE  UserThere1(u)
  BY DEF Keeps, UserThere, UserThere1

LEMMA MemberKept ==
  ASSUME Keeps, NEW m, MemberThere(m)
  PROVE  MemberThere1(m)
  BY DEF Keeps, MemberThere, MemberThere1

LEMMA TakenAt ==
  ASSUME NEW n
  PROVE  NameTaken(n) <=> \E i \in DOMAIN groups : groups[i] # "" /\ Lower[groups[i]] = Lower[n]
  BY DEF NameTaken, Range

LEMMA GroupKept ==
  ASSUME Keeps, NEW n, GroupThere(n)
  PROVE  GroupThere1(n)
<1>1. CASE <<"group", Lower[n]>> \in gone
  BY <1>1 DEF Keeps, GroupThere1
<1>2. CASE NameTaken(n)
  <2>1. PICK i \in DOMAIN groups : groups[i] # "" /\ Lower[groups[i]] = Lower[n]
    BY <1>2, TakenAt
  <2>2. i \in DOMAIN groups' /\ (groups'[i] = groups[i] \/ <<"group", Lower[groups[i]]>> \in gone')
    BY DEF Keeps
  <2>3. CASE groups'[i] = groups[i]
    BY <2>1, <2>2, <2>3 DEF GroupThere1
  <2>4. CASE <<"group", Lower[groups[i]]>> \in gone'
    BY <2>1, <2>4 DEF GroupThere1
  <2> QED
    BY <2>2, <2>3, <2>4
<1> QED
  BY <1>1, <1>2 DEF GroupThere

LEMMA KnownGroupKept ==
  ASSUME Keeps, NEW n, NEW g, KnownGroup(n, g)
  PROVE  KnownGroup1(n, g)
<1>1. n # "" /\ g.id \in DOMAIN groups'
  BY DEF KnownGroup, Keeps
<1>2. groups'[g.id] = n \/ <<"group", Lower[n]>> \in gone'
  BY DEF KnownGroup, Keeps
<1>3. \A u \in g.users : MemberThere1(<<u, g.id>>)
  <2> SUFFICES ASSUME NEW u \in g.users PROVE MemberThere1(<<u, g.id>>)
    OBVIOUS
  <2>1. MemberThere(<<u, g.id>>)
    BY DEF KnownGroup
  <2> QED
    BY <2>1, MemberKept
<1> QED
  BY <1>1, <1>2, <1>3 DEF KnownGroup1

\* What a step does to each of the lists.
HaveStep ==
    lists'.have = lists.have \/ \E yes \in BOOLEAN : Confirm(yes)
LdapUsersStep ==
    \/ lists'.ldapUsers = lists.ldapUsers
    \/ /\ Working /\ pc = "fetch" /\ fetch # <<>> /\ Head(fetch) = "get_users"
       /\ \A i \in DOMAIN lists'.ldapUsers : lists'.ldapUsers[i].id \in Text
LdapGroupsStep ==
    \/ lists'.ldapGroups = lists.ldapGroups
    \/ /\ Working /\ pc = "fetch" /\ fetch # <<>> /\ Head(fetch) = "get_groups"
       /\ \A i \in DOMAIN lists'.ldapGroups : lists'.ldapGroups[i].name \in Text
KnownUsersStep ==
    \/ lists'.knownUsers = lists.knownUsers
    \/ lists'.knownUsers = users /\ pc = "fetch"
    \/ \E p \in todo : /\ UserSent(p)
                       /\ lists'.knownUsers = lists.knownUsers \cup {Lower[lists.ldapUsers[p[1]].id]}
WithGroup(k, n, i) ==
    [x \in DOMAIN k \cup {n} |-> IF x = n THEN [id |-> i, users |-> {}] ELSE k[x]]
KnownGroupsStep ==
    \/ lists'.knownGroups = lists.knownGroups
    \/ lists'.knownGroups = ListedGroups /\ pc = "fetch"
    \/ \E p \in todo :
          /\ GroupSent(p)
          /\ lists'.knownGroups =
                WithGroup(lists.knownGroups, lists.ldapGroups[p[1]].name, Len(groups) + 1)

LEMMA ListsStep ==
  ASSUME IsLists(lists), [Next]_vars
  PROVE  /\ IsLists(lists)' /\ HaveStep /\ LdapUsersStep /\ LdapGroupsStep
         /\ KnownUsersStep /\ KnownGroupsStep
<1> DEFINE Goal == /\ IsLists(lists)' /\ HaveStep /\ LdapUsersStep /\ LdapGroupsStep
                   /\ KnownUsersStep /\ KnownGroupsStep
<1> SUFFICES Goal
  OBVIOUS
<1>1. CASE lists' = lists
  BY <1>1 DEF HaveStep, LdapUsersStep, LdapGroupsStep, KnownUsersStep, KnownGroupsStep
<1>2. CASE Still \/ Connecting \/ Asked \/ Failing \/ Moving
  BY <1>1, <1>2 DEF Still, tool, Connecting, Asked, Failing, Moving
<1>3. ASSUME NEW p \in todo, Troubled(p) \/ MemberSent(p)
      PROVE  Goal
  BY <1>1, <1>3 DEF Troubled, MemberSent, Sent
<1>4. ASSUME NEW yes \in BOOLEAN, Confirm(yes)
      PROVE  Goal
  <2>1. lists' = [lists EXCEPT !.have = lists.have \cup {phase}]
    BY <1>4 DEF Confirm
  <2>2. /\ IsLists(lists') /\ lists'.ldapUsers = lists.ldapUsers
        /\ lists'.ldapGroups = lists.ldapGroups
        /\ lists'.knownUsers = lists.knownUsers /\ lists'.knownGroups = lists.knownGroups
    BY <2>1, SetHave
  <2> QED
    BY <1>4, <2>2 DEF HaveStep, LdapUsersStep, LdapGroupsStep, KnownUsersStep, KnownGroupsStep
<1>5. CASE Listing
  <2>1. CASE Fetching("list_users", [lists EXCEPT !.knownUsers = users])
    <3>1. lists' = [lists EXCEPT !.knownUsers = users] /\ pc = "fetch"
      BY <2>1 DEF Fetching
    <3>2. /\ IsLists(lists') /\ lists'.have = lists.have /\ lists'.ldapUsers = lists.ldapUsers
          /\ lists'.ldapGroups = lists.ldapGroups
          /\ lists'.knownUsers = users /\ lists'.knownGroups = lists.knownGroups
      BY <3>1, SetKnownUsers
    <3> QED
      BY <3>1, <3>2 DEF HaveStep, LdapUsersStep, LdapGroupsStep, KnownUsersStep, KnownGroupsStep
  <2>2. CASE Fetching("list_groups", [lists EXCEPT !.knownGroups = ListedGroups])
    <3>1. lists' = [lists EXCEPT !.knownGroups = ListedGroups] /\ pc = "fetch"
      BY <2>2 DEF Fetching
    <3>2. /\ IsLists(lists') /\ lists'.have = lists.have /\ lists'.ldapUsers = lists.ldapUsers
          /\ lists'.ldapGroups = lists.ldapGroups
          /\ lists'.knownUsers = lists.knownUsers /\ lists'.knownGroups = ListedGroups
      BY <3>1, SetKnownGroups
    <3> QED
      BY <3>1, <3>2 DEF HaveStep, LdapUsersStep, LdapGroupsStep, KnownUsersStep, KnownGroupsStep
  <2>3. ASSUME NEW us, \A i \in DOMAIN us : us[i].id \in Text,
               Fetching("get_users", [lists EXCEPT !.ldapUsers = us])
        PROVE  Goal
    <3>1. /\ lists' = [lists EXCEPT !.ldapUsers = us]
          /\ Working /\ pc = "fetch" /\ fetch # <<>> /\ Head(fetch) = "get_users"
      BY <2>3 DEF Fetching
    <3>2. /\ IsLists(lists') /\ lists'.have = lists.have /\ lists'.ldapUsers = us
          /\ lists'.ldapGroups = lists.ldapGroups
          /\ lists'.knownUsers = lists.knownUsers /\ lists'.knownGroups = lists.knownGroups
      BY <3>1, SetLdapUsers
    <3> QED
      BY <2>3, <3>1, <3>2
      DEF HaveStep, LdapUsersStep, LdapGroupsStep, KnownUsersStep, KnownGroupsStep
  <2>4. ASSUME NEW gs, \A i \in DOMAIN gs : gs[i].name \in Text,
               Fetching("get_groups", [lists EXCEPT !.ldapGroups = gs])
        PROVE  Goal
    <3>1. /\ lists' = [lists EXCEPT !.ldapGroups = gs]
          /\ Working /\ pc = "fetch" /\ fetch # <<>> /\ Head(fetch) = "get_groups"
      BY <2>4 DEF Fetching
    <3>2. /\ IsLists(lists') /\ lists'.have = lists.have /\ lists'.ldapUsers = lists.ldapUsers
          /\ lists'.ldapGroups = gs
          /\ lists'.knownUsers = lists.knownUsers /\ lists'.knownGroups = lists.knownGroups
      BY <3>1, SetLdapGroups
    <3> QED
      BY <2>4, <3>1, <3>2
      DEF HaveStep, LdapUsersStep, LdapGroupsStep, KnownUsersStep, KnownGroupsStep
  <2> QED
    BY <1>5, <2>1, <2>2, <2>3, <2>4 DEF Listing
<1>6. ASSUME NEW p \in todo, UserSent(p)
      PROVE  Goal
  <2> DEFINE x == lists.knownUsers \cup {Lower[lists.ldapUsers[p[1]].id]}
  <2>1. lists' = [lists EXCEPT !.knownUsers = x]
    BY <1>6 DEF UserSent, Sent, NotedUser
  <2>2. /\ IsLists(lists') /\ lists'.have = lists.have /\ lists'.ldapUsers = lists.ldapUsers
        /\ lists'.ldapGroups = lists.ldapGroups
        /\ lists'.knownUsers = x /\ lists'.knownGroups = lists.knownGroups
    <3> HIDE DEF x
    <3> QED
      BY <2>1, SetKnownUsers
  <2> QED
    BY <1>6, <2>2 DEF HaveStep, LdapUsersStep, LdapGroupsStep, KnownUsersStep, KnownGroupsStep
<1>7. ASSUME NEW p \in todo, GroupSent(p)
      PROVE  Goal
  <2> DEFINE x == WithGroup(lists.knownGroups, lists.ldapGroups[p[1]].name, Len(groups) + 1)
  <2>1. lists' = [lists EXCEPT !.knownGroups = x]
    BY <1>7 DEF GroupSent, Sent, NotedGroup, WithGroup
  <2>2. /\ IsLists(lists') /\ lists'.have = lists.have /\ lists'.ldapUsers = lists.ldapUsers
        /\ lists'.ldapGroups = lists.ldapGroups
        /\ lists'.knownUsers = lists.knownUsers /\ lists'.knownGroups = x
    <3> HIDE DEF x
    <3> QED
      BY <2>1, SetKnownGroups
  <2> QED
    BY <1>7, <2>2 DEF HaveStep, LdapUsersStep, LdapGroupsStep, KnownUsersStep, KnownGroupsStep
<1> QED
  BY <1>2, <1>3, <1>4, <1>5, <1>6, <1>7, ToolStep

-----------------------------------------------------------------------------
(* Types and Course.                                                        *)

\* The lists that are fetched are ones that no phase has used.
Fresh(f, have) ==
    /\ f \in Seq(Fetches)
    /\ \A k \in DOMAIN f : /\ f[k] = "get_users" => "users" \notin have
                           /\ f[k] = "get_groups" => "groups" \notin have

LEMMA FreshRest ==
  ASSUME NEW f, NEW have, Fresh(f, have), f # <<>>
  PROVE  /\ Fresh(Tail(f), have)
         /\ Head(f) = "get_users" => "users" \notin have
         /\ Head(f) = "get_groups" => "groups" \notin have
<1>1. f \in Seq(Fetches)
  BY DEF Fresh
<1>2. /\ Head(f) = f[1] /\ Tail(f) \in Seq(Fetches)
      /\ Len(Tail(f)) = Len(f) - 1 /\ \A i \in 1 .. Len(Tail(f)) : Tail(f)[i] = f[i + 1]
  BY <1>1, HeadTailProperties
<1>3. Len(f) \in Nat \ {0}
  BY <1>1, EmptySeq
<1>4. DOMAIN f = 1 .. Len(f) /\ DOMAIN Tail(f) = 1 .. Len(Tail(f))
  BY <1>1, <1>2, SeqDomain
<1>5. \A i \in DOMAIN Tail(f) : i + 1 \in DOMAIN f /\ Tail(f)[i] = f[i + 1]
  BY <1>2, <1>3, <1>4
<1>6. 1 \in DOMAIN f
  BY <1>3, <1>4
<1> QED
  BY <1>2, <1>5, <1>6 DEF Fresh

LEMMA FreshScripts ==
  ASSUME NEW have
  PROVE  /\ Fresh(<<>>, have)
         /\ "users" \notin have => Fresh(<<"list_users", "get_users">>, have)
         /\ "users" \notin have => Fresh(<<"get_users", "list_users">>, have)
         /\ "groups" \notin have => Fresh(<<"list_groups", "get_groups">>, have)
         /\ "groups" \notin have => Fresh(<<"get_groups", "list_groups">>, have)
         /\ "users" \notin have /\ "groups" \notin have =>
                Fresh(<<"get_users", "get_groups", "list_groups", "list_users">>, have)
<1>1. Fresh(<<>>, have)
  BY DEF Fresh
<1>2. ASSUME "users" \notin have PROVE Fresh(<<"list_users", "get_users">>, have)
  BY <1>2 DEF Fresh, Fetches
<1>3. ASSUME "users" \notin have PROVE Fresh(<<"get_users", "list_users">>, have)
  BY <1>3 DEF Fresh, Fetches
<1>4. ASSUME "groups" \notin have PROVE Fresh(<<"list_groups", "get_groups">>, have)
  BY <1>4 DEF Fresh, Fetches
<1>5. ASSUME "groups" \notin have PROVE Fresh(<<"get_groups", "list_groups">>, have)
  BY <1>5 DEF Fresh, Fetches
<1>6. ASSUME "users" \notin have, "groups" \notin have
      PROVE  Fresh(<<"get_users", "get_groups", "list_groups", "list_users">>, have)
  BY <1>6 DEF Fresh, Fetches
<1> QED
  BY <1>1, <1>2, <1>3, <1>4, <1>5, <1>6

LEMMA FreshMissing ==
  ASSUME NEW l PROVE Fresh(Missing(l), l.have)
<1>1. CASE {"users", "groups"} \subseteq l.have
  <2>1. Missing(l) = <<>>
    BY <1>1 DEF Missing
  <2> QED
    BY <2>1, FreshScripts
<1>2. CASE "users" \in l.have /\ "groups" \notin l.have
  <2>1. Missing(l) = <<"get_groups", "list_groups">>
    BY <1>2 DEF Missing
  <2> QED
    BY <1>2, <2>1, FreshScripts
<1>3. CASE "users" \notin l.have /\ "groups" \in l.have
  <2>1. Missing(l) = <<"get_users", "list_users">>
    BY <1>3 DEF Missing
  <2> QED
    BY <1>3, <2>1, FreshScripts
<1>4. CASE "users" \notin l.have /\ "groups" \notin l.have
  <2>1. Missing(l) = <<"get_users", "get_groups", "list_groups", "list_users">>
    BY <1>4 DEF Missing
  <2> QED
    BY <1>4, <2>1, FreshScripts
<1> QED
  BY <1>1, <1>2, <1>3, <1>4

LEMMA FetchStep ==
  ASSUME Types, Course, [Next]_vars
  PROVE  Fresh(fetch', lists'.have)
<1>1. Fresh(fetch, lists.have)
  BY DEF Types, Course, Fresh
<1>2. CASE lists'.have = lists.have /\ fetch' \in {fetch, <<>>}
  BY <1>1, <1>2, FreshScripts
<1>3. CASE Still \/ Connecting \/ Failing \/ Moving
  BY <1>2, <1>3 DEF Still, tool, Connecting, Failing, Moving
<1>4. CASE Asked
  <2>1. lists' = lists /\ Working /\ pc = "ask"
    BY <1>4 DEF Asked
  <2>2. CASE phase = "users"
    <3>1. fetch' = <<"list_users", "get_users">> /\ "users" \notin lists.have
      BY <1>4, <2>1, <2>2 DEF Asked, Course
    <3> QED
      BY <2>1, <3>1, FreshScripts
  <2>3. CASE phase = "groups"
    <3>1. fetch' = <<"list_groups", "get_groups">> /\ "groups" \notin lists.have
      BY <1>4, <2>1, <2>3 DEF Asked, Course
    <3> QED
      BY <2>1, <3>1, FreshScripts
  <2>4. CASE phase = "members"
    <3>1. fetch' = Missing(lists)
      BY <1>4, <2>4 DEF Asked
    <3> QED
      BY <2>1, <3>1, FreshMissing
  <2> QED
    BY <2>1, <2>2, <2>3, <2>4 DEF Working
<1>5. CASE Listing
  <2>1. pc = "fetch" /\ fetch # <<>> /\ fetch' = Tail(fetch)
    BY <1>5 DEF Listing, Fetching
  <2>2. lists'.have = lists.have
    BY <2>1, ListsStep DEF Types, HaveStep, Confirm
  <2> QED
    BY <1>1, <2>1, <2>2, FreshRest
<1>6. ASSUME NEW yes \in BOOLEAN, Confirm(yes)
      PROVE  Fresh(fetch', lists'.have)
  <2>1. fetch' = <<>>
    BY <1>6 DEF Confirm
  <2> QED
    BY <2>1, FreshScripts
<1>7. ASSUME NEW p \in todo, Troubled(p) \/ UserSent(p) \/ GroupSent(p) \/ MemberSent(p)
      PROVE  Fresh(fetch', lists'.have)
  <2>1. fetch' = fetch /\ pc \in {"add", "choose"}
    BY <1>7 DEF Troubled, UserSent, GroupSent, MemberSent, Sent
  <2>2. lists'.have = lists.have
    BY <2>1, ListsStep DEF Types, HaveStep, Confirm
  <2> QED
    BY <1>2, <2>1, <2>2
<1> QED
  BY <1>3, <1>4, <1>5, <1>6, <1>7, ToolStep

LEMMA TypesNext ==
  ASSUME Types, Course, [Next]_vars
  PROVE  Types'
<1>1. users' \subseteq Lowered /\ groups' \in Seq(Text \cup {""})
  BY ServerStep DEF Keeps
<1>2. phase' \in Phases
  <2>1. phase \in Phases
    BY DEF Types
  <2>2. Working => After[phase] \in Phases
    BY DEF Working, After, Phases
  <2> QED
    BY <2>1, <2>2, ToolStep
    DEF Still, tool, Connecting, Asked, Failing, Moving, Listing, Fetching, Confirm, Troubled,
        UserSent, GroupSent, MemberSent, Sent, Phases
<1>3. IsLists(lists)' /\ LdapUsersStep /\ LdapGroupsStep /\ KnownUsersStep
  BY ListsStep DEF Types
<1>4. \A i \in DOMAIN lists'.ldapUsers : lists'.ldapUsers[i].id \in Text
  BY <1>3 DEF Types, LdapUsersStep
<1>5. \A i \in DOMAIN lists'.ldapGroups : lists'.ldapGroups[i].name \in Text
  BY <1>3 DEF Types, LdapGroupsStep
<1>6. lists'.knownUsers \subseteq Lowered
  <2>1. ASSUME NEW p \in todo, UserSent(p)
        PROVE  lists.ldapUsers[p[1]].id \in Text
    BY <2>1 DEF UserSent, Course, Types
  <2>2. users \subseteq Lowered /\ lists.knownUsers \subseteq Lowered
    BY DEF Types
  <2>3. ASSUME NEW p \in todo, UserSent(p)
        PROVE  Lower[lists.ldapUsers[p[1]].id] \in Lowered
    BY <2>1, <2>3 DEF Lowered
  <2> QED
    BY <1>3, <2>2, <2>3 DEF KnownUsersStep
<1>7. fetch' \in Seq(Fetches)
  BY FetchStep DEF Fresh
<1> QED
  BY <1>1, <1>2, <1>3, <1>4, <1>5, <1>6, <1>7 DEF Types

LEMMA CourseNext ==
  ASSUME Types, Course, [Next]_vars
  PROVE  Course'
<1> DEFINE Used(ph, later) ==
             ph \in lists'.have => phase' \in later \/ (phase' = ph /\ pc' \in {"add", "choose"})
           Places == /\ IF pc' \in {"add", "choose"} THEN fetch' = <<>> ELSE todo' = {}
                     /\ phase' = "users" => \A p \in todo' : p[1] \in DOMAIN lists'.ldapUsers
                     /\ phase' = "groups" => \A p \in todo' : p[1] \in DOMAIN lists'.ldapGroups
           Goal == /\ Used("users", {"groups", "members", "done", "failed"})
                   /\ Used("groups", {"members", "done", "failed"})
                   /\ Used("members", {"done", "failed"})
                   /\ Places
<1>0. IsLists(lists)' /\ HaveStep /\ LdapUsersStep /\ LdapGroupsStep
  BY ListsStep DEF Types
<1>1. Goal
  <2>1. CASE Still
    BY <2>1 DEF Still, tool, Course
  <2>2. CASE Connecting
    BY <2>2 DEF Connecting, Course
  <2>3. CASE Asked
    BY <2>3 DEF Asked, Working, Course
  <2>4. CASE Failing
    BY <2>4 DEF Failing, Working, Course
  <2>5. CASE Moving
    <3>1. After["users"] = "groups" /\ After["groups"] = "members" /\ After["members"] = "done"
      BY DEF After
    <3> QED
      BY <2>5, <3>1 DEF Moving, Working, Course
  <2>6. CASE Listing
    <3>1. pc = "fetch" /\ Working /\ UNCHANGED <<phase, pc, todo>>
      BY <2>6 DEF Listing, Fetching
    <3>2. lists'.have = lists.have
      BY <1>0, <3>1, <2>6 DEF HaveStep, Confirm, Listing, Fetching
    <3> QED
      BY <3>1, <3>2 DEF Working, Course
  <2>7. ASSUME NEW yes \in BOOLEAN, Confirm(yes)
        PROVE  Goal
    <3>1. /\ Working /\ pc = "fetch" /\ fetch' = <<>> /\ phase' = phase /\ pc' = "add"
          /\ lists' = [lists EXCEPT !.have = lists.have \cup {phase}]
          /\ todo' = {} \/ todo' = ToAdd(lists)
      BY <2>7 DEF Confirm
    <3>2. IsLists(lists)
      BY DEF Types
    <3>3. /\ lists'.have = lists.have \cup {phase} /\ lists'.ldapUsers = lists.ldapUsers
          /\ lists'.ldapGroups = lists.ldapGroups
      BY <3>1, <3>2, SetHave
    <3>4. /\ phase = "users" => \A p \in ToAdd(lists) : p[1] \in DOMAIN lists.ldapUsers
          /\ phase = "groups" => \A p \in ToAdd(lists) : p[1] \in DOMAIN lists.ldapGroups
      BY DEF ToAdd, UsersToAdd, GroupsToAdd
    <3> QED
      BY <3>1, <3>3, <3>4 DEF Working, Course
  <2>8. ASSUME NEW p \in todo, Troubled(p) \/ UserSent(p) \/ GroupSent(p) \/ MemberSent(p)
        PROVE  Goal
    <3>1. /\ pc \in {"add", "choose"} /\ pc' \in {"add", "choose"} /\ UNCHANGED <<phase, fetch>>
          /\ todo' \subseteq todo
      BY <2>8 DEF Troubled, UserSent, GroupSent, MemberSent, Sent
    <3>2. /\ lists'.have = lists.have /\ lists'.ldapUsers = lists.ldapUsers
          /\ lists'.ldapGroups = lists.ldapGroups
      BY <1>0, <3>1 DEF HaveStep, Confirm, LdapUsersStep, LdapGroupsStep
    <3> QED
      BY <3>1, <3>2 DEF Course
  <2> QED
    BY <2>1, <2>2, <2>3, <2>4, <2>5, <2>6, <2>7, <2>8, ToolStep
<1>2. Fresh(fetch', lists'.have)
  BY FetchStep
<1> QED
  BY <1>1, <1>2 DEF Course, Fresh

-----------------------------------------------------------------------------
(* What the tool knows.                                                     *)

LEMMA ListedKnown ==
  ASSUME Types, NEW n \in DOMAIN ListedGroups
  PROVE  KnownGroup(n, ListedGroups[n])
<1> DEFINE i == CHOOSE j \in DOMAIN groups : groups[j] = n
           g == [id |-> i, users |-> {u \in users : <<u, i>> \in members}]
<1>1. ListedGroups[n] = g /\ n \in Range(groups) \ {""}
  BY DEF ListedGroups
<1>2. \E j \in DOMAIN groups : groups[j] = n
  BY <1>1 DEF Range
<1>3. i \in DOMAIN groups /\ groups[i] = n
  BY <1>2
<1> HIDE DEF i
<1>4. g.id = i /\ \A u \in g.users : <<u, i>> \in members
  OBVIOUS
<1> HIDE DEF g
<1> QED
  BY <1>1, <1>3, <1>4 DEF KnownGroup, MemberThere

LEMMA WithGroupAt ==
  ASSUME NEW k, NEW n, NEW i, NEW x \in DOMAIN WithGroup(k, n, i)
  PROVE  \/ x = n /\ WithGroup(k, n, i)[x] = [id |-> i, users |-> {}]
         \/ x \in DOMAIN k /\ WithGroup(k, n, i)[x] = k[x]
<1>1. x \in DOMAIN k \cup {n}
  BY DEF WithGroup
<1>2. CASE x = n
  BY <1>1, <1>2 DEF WithGroup
<1>3. CASE x # n
  BY <1>1, <1>3 DEF WithGroup
<1> QED
  BY <1>2, <1>3

LEMMA KnownNext ==
  ASSUME Types, Course, Known, [Next]_vars
  PROVE  Known'
<1>1. Keeps /\ KnownUsersStep /\ KnownGroupsStep
  BY ServerStep, ListsStep DEF Types
<1>2. \A u \in lists'.knownUsers : UserThere1(u)
  <2>1. ASSUME NEW u \in lists.knownUsers PROVE UserThere1(u)
    BY <1>1, UserKept DEF Known
  <2>2. ASSUME NEW u \in users PROVE UserThere1(u)
    BY <1>1, UserKept DEF UserThere
  <2>3. ASSUME NEW p \in todo, UserSent(p)
        PROVE  UserThere1(Lower[lists.ldapUsers[p[1]].id])
    BY <2>3 DEF UserSent, UserThere1
  <2> QED
    BY <1>1, <2>1, <2>2, <2>3 DEF KnownUsersStep
<1>3. \A n \in DOMAIN lists'.knownGroups : KnownGroup1(n, lists'.knownGroups[n])
  <2>1. ASSUME NEW n \in DOMAIN lists.knownGroups
        PROVE  KnownGroup1(n, lists.knownGroups[n])
    BY <1>1, KnownGroupKept DEF Known
  <2>2. ASSUME NEW n \in DOMAIN ListedGroups
        PROVE  KnownGroup1(n, ListedGroups[n])
    BY <1>1, KnownGroupKept, ListedKnown
  <2>3. ASSUME NEW p \in todo, GroupSent(p)
        PROVE  LET k == WithGroup(lists.knownGroups, lists.ldapGroups[p[1]].name, Len(groups) + 1)
               IN  \A n \in DOMAIN k : KnownGroup1(n, k[n])
    <3> DEFINE name == lists.ldapGroups[p[1]].name
               new == Len(groups) + 1
               k == WithGroup(lists.knownGroups, name, new)
    <3>1. groups' = Append(groups, name) /\ name \in Text
      BY <2>3 DEF GroupSent, Course, Types
    <3>2. name # ""
      BY <3>1, ToolAssumption
    <3> HIDE DEF name
    <3>3. new \in DOMAIN groups' /\ groups'[new] = name
      <4> DEFINE S == Text \cup {""}
      <4>1. groups \in Seq(S) /\ name \in S
        BY <3>1 DEF Types
      <4> HIDE DEF S
      <4> QED
        BY <3>1, <4>1, Appended
    <3> HIDE DEF new
    <3>4. KnownGroup1(name, [id |-> new, users |-> {}])
      BY <3>2, <3>3 DEF KnownGroup1
    <3>5. ASSUME NEW n \in DOMAIN k
          PROVE  KnownGroup1(n, k[n])
      <4>1. \/ n = name /\ k[n] = [id |-> new, users |-> {}]
            \/ n \in DOMAIN lists.knownGroups /\ k[n] = lists.knownGroups[n]
        BY WithGroupAt
      <4> HIDE DEF k
      <4> QED
        BY <2>1, <3>4, <4>1
    <3> HIDE DEF k
    <3>6. \A n \in DOMAIN k : KnownGroup1(n, k[n])
      BY <3>5
    <3> QED
      BY <3>6 DEF k, name, new
  <2> QED
    BY <1>1, <2>1, <2>2, <2>3 DEF KnownGroupsStep
<1> QED
  BY <1>2, <1>3 DEF Known, UserThere, UserThere1, KnownGroup, KnownGroup1, MemberThere, MemberThere1

-----------------------------------------------------------------------------
(* What is done.                                                            *)

\* Users and groups are confirmed in one way: what is not to do is known.
LEMMA Confirmed ==
  ASSUME Types, NEW yes \in BOOLEAN, Confirm(yes), phase \notin skipped'
  PROVE  todo' = ToAdd(lists)
  BY DEF Confirm

\* A step that sends, skips or ends leaves nothing undone behind it.
LEMMA UsersDoneNext ==
  ASSUME Types, Course, Known, UsersDone, [Next]_vars
  PROVE  UsersDone'
<1> DEFINE Goal(i) == \/ UserThere1(Lower[lists'.ldapUsers[i].id])
                      \/ phase' = "users" /\ <<i, 0>> \in todo'
<1> SUFFICES ASSUME "users" \in lists'.have \ skipped', phase' # "failed",
                    NEW i \in DOMAIN lists'.ldapUsers
             PROVE  Goal(i)
  BY DEF UsersDone, UserThere, UserThere1
<1>0. Keeps /\ HaveStep /\ LdapUsersStep
  BY ServerStep, ListsStep DEF Types
<1>1. ASSUME "users" \in lists.have \ skipped, lists'.ldapUsers = lists.ldapUsers,
             phase # "failed",
             (phase = "users" /\ <<i, 0>> \in todo) => Goal(i)
      PROVE  Goal(i)
  <2>1. UserThere(Lower[lists.ldapUsers[i].id]) \/ (phase = "users" /\ <<i, 0>> \in todo)
    BY <1>1 DEF UsersDone
  <2>2. CASE UserThere(Lower[lists.ldapUsers[i].id])
    BY <1>0, <1>1, <2>2, UserKept
  <2> QED
    BY <1>1, <2>1, <2>2
<1>2. CASE Still \/ Connecting \/ Failing
  BY <1>1, <1>2 DEF Still, tool, Connecting, Failing, Course
<1>3. CASE Asked \/ Moving
  <2>1. lists' = lists /\ Working /\ skipped \subseteq skipped' /\ (pc = "ask" \/ todo = {})
    BY <1>3 DEF Asked, Moving
  <2>2. ~(phase = "users" /\ <<i, 0>> \in todo)
    BY <2>1 DEF Course
  <2> QED
    BY <1>1, <2>1, <2>2 DEF Working
<1>4. CASE Listing
  <2>1. /\ Working /\ pc = "fetch" /\ fetch # <<>> /\ UNCHANGED <<phase, pc, todo, skipped>>
    BY <1>4 DEF Listing, Fetching
  <2>2. lists'.have = lists.have
    BY <1>0, <2>1 DEF HaveStep, Confirm
  <2>3. Fresh(fetch, lists.have)
    BY DEF Types, Course, Fresh
  <2>4. lists'.ldapUsers = lists.ldapUsers
    BY <1>0, <2>1, <2>2, <2>3, FreshRest DEF LdapUsersStep
  <2> QED
    BY <1>1, <2>1, <2>2, <2>4 DEF Working
<1>5. ASSUME NEW yes \in BOOLEAN, Confirm(yes)
      PROVE  Goal(i)
  <2>1. /\ Working /\ pc = "fetch" /\ phase' = phase /\ UNCHANGED server
        /\ lists' = [lists EXCEPT !.have = lists.have \cup {phase}]
        /\ skipped \subseteq skipped'
    BY <1>5 DEF Confirm
  <2>2. lists'.have = lists.have \cup {phase} /\ lists'.ldapUsers = lists.ldapUsers
    <3>1. IsLists(lists)
      BY DEF Types
    <3> QED
      BY <2>1, <3>1, SetHave
  <2>3. CASE phase = "users"
    <3>1. todo' = UsersToAdd(lists)
      BY <1>5, <2>3, Confirmed DEF ToAdd
    <3> DEFINE id == lists.ldapUsers[i].id
    <3>2. CASE id \in lists.knownUsers
      <4>1. UserThere(id) /\ id \in Lowered
        BY <3>2 DEF Known, Types
      <4>2. Lower[id] = id
        BY <4>1, ToolAssumption DEF Lowered
      <4>3. UserThere1(id)
        BY <1>0, <4>1, UserKept
      <4> QED
        BY <2>2, <4>2, <4>3
    <3>3. CASE id \notin lists.knownUsers
      <4>1. <<i, 0>> \in UsersToAdd(lists)
        BY <2>2, <3>3 DEF UsersToAdd
      <4> QED
        BY <2>1, <2>3, <3>1, <4>1
    <3> QED
      BY <3>2, <3>3
  <2>4. CASE phase # "users"
    BY <1>1, <2>1, <2>2, <2>4 DEF Working
  <2> QED
    BY <2>3, <2>4
<1>6. ASSUME NEW p \in todo, Troubled(p) \/ UserSent(p) \/ GroupSent(p) \/ MemberSent(p)
      PROVE  Goal(i)
  <2>1. /\ pc \in {"add", "choose"} /\ UNCHANGED phase /\ skipped \subseteq skipped'
    BY <1>6 DEF Troubled, UserSent, GroupSent, MemberSent, Sent
  <2>2. lists'.have = lists.have /\ lists'.ldapUsers = lists.ldapUsers
    BY <1>0, <2>1 DEF HaveStep, Confirm, LdapUsersStep
  <2>3. ASSUME phase = "users", <<i, 0>> \in todo PROVE Goal(i)
    <3>1. CASE <<i, 0>> \in todo'
      BY <2>1, <2>3, <3>1
    <3>2. CASE <<i, 0>> \notin todo'
      <4>1. ~Troubled(p)
        BY <2>3, <3>2 DEF Troubled
      <4>2. UserSent(p) /\ p = <<i, 0>>
        BY <1>6, <2>3, <3>2, <4>1 DEF UserSent, GroupSent, MemberSent, Sent
      <4>3. Lower[lists.ldapUsers[i].id] \in users'
        BY <4>2 DEF UserSent
      <4> QED
        BY <2>2, <4>3 DEF UserThere1
    <3> QED
      BY <3>1, <3>2
  <2> QED
    BY <1>1, <2>1, <2>2, <2>3
<1> QED
  BY <1>2, <1>3, <1>4, <1>5, <1>6, ToolStep

LEMMA GroupsDoneNext ==
  ASSUME Types, Course, Known, GroupsDone, [Next]_vars
  PROVE  GroupsDone'
<1> DEFINE Goal(i) == \/ GroupThere1(lists'.ldapGroups[i].name)
                      \/ phase' = "groups" /\ <<i, 0>> \in todo'
<1> SUFFICES ASSUME "groups" \in lists'.have \ skipped', phase' # "failed",
                    NEW i \in DOMAIN lists'.ldapGroups
             PROVE  Goal(i)
  BY DEF GroupsDone, GroupThere, GroupThere1, NameTaken, Range
<1>0. Keeps /\ HaveStep /\ LdapGroupsStep
  BY ServerStep, ListsStep DEF Types
<1>1. ASSUME "groups" \in lists.have \ skipped, lists'.ldapGroups = lists.ldapGroups,
             phase # "failed",
             (phase = "groups" /\ <<i, 0>> \in todo) => Goal(i)
      PROVE  Goal(i)
  <2>1. GroupThere(lists.ldapGroups[i].name) \/ (phase = "groups" /\ <<i, 0>> \in todo)
    BY <1>1 DEF GroupsDone
  <2>2. CASE GroupThere(lists.ldapGroups[i].name)
    BY <1>0, <1>1, <2>2, GroupKept
  <2> QED
    BY <1>1, <2>1, <2>2
<1>2. CASE Still \/ Connecting \/ Failing
  BY <1>1, <1>2 DEF Still, tool, Connecting, Failing, Course
<1>3. CASE Asked \/ Moving
  <2>1. lists' = lists /\ Working /\ skipped \subseteq skipped' /\ (pc = "ask" \/ todo = {})
    BY <1>3 DEF Asked, Moving
  <2>2. ~(phase = "groups" /\ <<i, 0>> \in todo)
    BY <2>1 DEF Course
  <2> QED
    BY <1>1, <2>1, <2>2 DEF Working
<1>4. CASE Listing
  <2>1. /\ Working /\ pc = "fetch" /\ fetch # <<>> /\ UNCHANGED <<phase, pc, todo, skipped>>
    BY <1>4 DEF Listing, Fetching
  <2>2. lists'.have = lists.have
    BY <1>0, <2>1 DEF HaveStep, Confirm
  <2>3. Fresh(fetch, lists.have)
    BY DEF Types, Course, Fresh
  <2>4. lists'.ldapGroups = lists.ldapGroups
    BY <1>0, <2>1, <2>2, <2>3, FreshRest DEF LdapGroupsStep
  <2> QED
    BY <1>1, <2>1, <2>2, <2>4 DEF Working
<1>5. ASSUME NEW yes \in BOOLEAN, Confirm(yes)
      PROVE  Goal(i)
  <2>1. /\ Working /\ pc = "fetch" /\ phase' = phase /\ UNCHANGED server
        /\ lists' = [lists EXCEPT !.have = lists.have \cup {phase}]
        /\ skipped \subseteq skipped'
    BY <1>5 DEF Confirm
  <2>2. lists'.have = lists.have \cup {phase} /\ lists'.ldapGroups = lists.ldapGroups
    <3>1. IsLists(lists)
      BY DEF Types
    <3> QED
      BY <2>1, <3>1, SetHave
  <2>3. CASE phase = "groups"
    <3>1. todo' = GroupsToAdd(lists)
      BY <1>5, <2>3, Confirmed DEF ToAdd
    <3> DEFINE n == lists.ldapGroups[i].name
    <3>2. CASE n \in DOMAIN lists.knownGroups
      <4>1. KnownGroup(n, lists.knownGroups[n])
        BY <3>2 DEF Known
      <4> HIDE DEF n
      <4>2. GroupThere(n)
        BY <4>1, TakenAt DEF KnownGroup, GroupThere
      <4>3. GroupThere1(n)
        BY <1>0, <4>2, GroupKept
      <4> QED
        BY <2>2, <4>3 DEF n
    <3>3. CASE n \notin DOMAIN lists.knownGroups
      <4>1. <<i, 0>> \in GroupsToAdd(lists)
        BY <2>2, <3>3 DEF GroupsToAdd
      <4> QED
        BY <2>1, <2>3, <3>1, <4>1
    <3> QED
      BY <3>2, <3>3
  <2>4. CASE phase # "groups"
    BY <1>1, <2>1, <2>2, <2>4 DEF Working
  <2> QED
    BY <2>3, <2>4
<1>6. ASSUME NEW p \in todo, Troubled(p) \/ UserSent(p) \/ GroupSent(p) \/ MemberSent(p)
      PROVE  Goal(i)
  <2>1. /\ pc \in {"add", "choose"} /\ UNCHANGED phase /\ skipped \subseteq skipped'
    BY <1>6 DEF Troubled, UserSent, GroupSent, MemberSent, Sent
  <2>2. lists'.have = lists.have /\ lists'.ldapGroups = lists.ldapGroups
    BY <1>0, <2>1 DEF HaveStep, Confirm, LdapGroupsStep
  <2>3. ASSUME phase = "groups", <<i, 0>> \in todo PROVE Goal(i)
    <3>1. CASE <<i, 0>> \in todo'
      BY <2>1, <2>3, <3>1
    <3>2. CASE <<i, 0>> \notin todo'
      <4>1. ~Troubled(p)
        BY <2>3, <3>2 DEF Troubled
      <4>2. GroupSent(p) /\ p = <<i, 0>>
        BY <1>6, <2>3, <3>2, <4>1 DEF UserSent, GroupSent, MemberSent, Sent
      <4> DEFINE n == lists.ldapGroups[i].name
      <4>3. groups' = Append(groups, n) /\ n \in Text
        BY <2>2, <4>2 DEF GroupSent, Types
      <4>4. n # ""
        BY <4>3, ToolAssumption
      <4> HIDE DEF n
      <4>5. \E j \in DOMAIN groups' : groups'[j] = n
        <5> DEFINE S == Text \cup {""}
        <5>1. groups \in Seq(S) /\ n \in S
          BY <4>3 DEF Types
        <5> HIDE DEF S
        <5>2. Len(groups) + 1 \in DOMAIN groups' /\ groups'[Len(groups) + 1] = n
          BY <4>3, <5>1, Appended
        <5> QED
          BY <5>2
      <4>6. GroupThere1(n)
        BY <4>4, <4>5 DEF GroupThere1
      <4> QED
        BY <2>2, <4>6 DEF n
    <3> QED
      BY <3>1, <3>2
  <2> QED
    BY <1>1, <2>1, <2>2, <2>3
<1> QED
  BY <1>2, <1>3, <1>4, <1>5, <1>6, ToolStep

Settled1(l, p, id) ==
    GroupAt(l, p).name \in DOMAIN l.knownGroups /\ id \in l.knownUsers /\ Lower[id] = id =>
        MemberThere1(<<id, l.knownGroups[GroupAt(l, p).name].id>>)

\* dn_resolver finds at most one user.
LEMMA OneUser ==
  ASSUME NEW l, NEW p, NEW a \in UserAt(l, p), NEW b \in UserAt(l, p)
  PROVE  a = b
  BY DEF UserAt, Resolve

\* Only the lists matter for what a place stands for, not which phases used them.
LEMMA SameAt ==
  ASSUME NEW l, NEW m, m.ldapUsers = l.ldapUsers, m.ldapGroups = l.ldapGroups,
         m.knownUsers = l.knownUsers, m.knownGroups = l.knownGroups
  PROVE  /\ MemberPlaces(m) = MemberPlaces(l)
         /\ \A p : UserAt(m, p) = UserAt(l, p) /\ GroupAt(m, p) = GroupAt(l, p)
         /\ \A p, id : Settled1(m, p, id) <=> Settled1(l, p, id)
<1>1. MemberPlaces(m) = MemberPlaces(l)
  BY DEF MemberPlaces
<1>2. ASSUME NEW p PROVE UserAt(m, p) = UserAt(l, p) /\ GroupAt(m, p) = GroupAt(l, p)
  BY DEF UserAt, GroupAt, Resolve
<1>3. ASSUME NEW p, NEW id PROVE Settled1(m, p, id) <=> Settled1(l, p, id)
  BY <1>2 DEF Settled1
<1> QED
  BY <1>1, <1>2, <1>3

LEMMA MembersDoneNext ==
  ASSUME Types, Course, Known, MembersDone, [Next]_vars
  PROVE  MembersDone'
<1> DEFINE Goal(p) == \/ \A id \in UserAt(lists', p) : Settled1(lists', p, id)
                      \/ phase' = "members" /\ p \in todo'
<1> SUFFICES ASSUME "members" \in lists'.have \ skipped', phase' # "failed",
                    NEW p \in MemberPlaces(lists')
             PROVE  Goal(p)
  BY DEF MembersDone, Settled, Settled1, MemberThere, MemberThere1, UserAt, GroupAt, MemberPlaces,
         Resolve
<1>0. Keeps /\ HaveStep
  BY ServerStep, ListsStep DEF Types
<1>1. ASSUME "members" \in lists.have \ skipped, lists' = lists, phase # "failed",
             (phase = "members" /\ p \in todo) => Goal(p)
      PROVE  Goal(p)
  <2>1. (\A id \in UserAt(lists, p) : Settled(lists, p, id)) \/ (phase = "members" /\ p \in todo)
    BY <1>1 DEF MembersDone
  <2>2. ASSUME NEW id \in UserAt(lists, p), Settled(lists, p, id)
        PROVE  Settled1(lists, p, id)
    BY <1>0, <2>2, MemberKept DEF Settled, Settled1
  <2> QED
    BY <1>1, <2>1, <2>2
<1>2. CASE Still \/ Connecting \/ Failing
  BY <1>1, <1>2 DEF Still, tool, Connecting, Failing, Course
<1>3. CASE Asked \/ Moving
  <2>1. lists' = lists /\ Working /\ skipped \subseteq skipped' /\ (pc = "ask" \/ todo = {})
    BY <1>3 DEF Asked, Moving
  <2>2. ~(phase = "members" /\ p \in todo)
    BY <2>1 DEF Course
  <2> QED
    BY <1>1, <2>1, <2>2 DEF Working
<1>4. CASE Listing
  <2>1. Working /\ pc = "fetch" /\ fetch # <<>>
    BY <1>4 DEF Listing, Fetching
  <2>2. lists'.have = lists.have
    BY <1>0, <2>1 DEF HaveStep, Confirm
  <2> QED
    BY <2>1, <2>2 DEF Working, Course
<1>5. ASSUME NEW yes \in BOOLEAN, Confirm(yes)
      PROVE  Goal(p)
  <2>1. /\ Working /\ pc = "fetch" /\ phase' = phase
        /\ lists' = [lists EXCEPT !.have = lists.have \cup {phase}]
        /\ skipped \subseteq skipped'
    BY <1>5 DEF Confirm
  <2>2. /\ lists'.have = lists.have \cup {phase}
        /\ lists'.ldapUsers = lists.ldapUsers /\ lists'.ldapGroups = lists.ldapGroups
        /\ lists'.knownUsers = lists.knownUsers /\ lists'.knownGroups = lists.knownGroups
    <3>1. IsLists(lists)
      BY DEF Types
    <3> QED
      BY <2>1, <3>1, SetHave
  <2>3. phase = "members"
    BY <2>1, <2>2 DEF Course, Working
  <2>4. todo' = MembersToAdd(lists)
    BY <1>5, <2>3, Confirmed DEF ToAdd
  <2>5. /\ p \in MemberPlaces(lists) /\ UserAt(lists', p) = UserAt(lists, p)
        /\ \A id : Settled1(lists', p, id) <=> Settled1(lists, p, id)
    BY <2>2, SameAt
  <2>6. CASE Missed(lists, p)
    BY <2>1, <2>3, <2>4, <2>5, <2>6 DEF MembersToAdd
  <2>7. CASE ~Missed(lists, p)
    <3> DEFINE n == GroupAt(lists, p).name
               g == lists.knownGroups[n]
    <3>1. ASSUME NEW id \in UserAt(lists, p) PROVE Settled1(lists, p, id)
      <4> SUFFICES ASSUME n \in DOMAIN lists.knownGroups, id \in lists.knownUsers
                   PROVE  MemberThere1(<<id, g.id>>)
        BY DEF Settled1
      <4>1. id \in g.users
        BY <2>7, <3>1 DEF Missed
      <4>2. KnownGroup(n, g)
        BY DEF Known
      <4> HIDE DEF n, g
      <4>3. MemberThere(<<id, g.id>>)
        BY <4>1, <4>2 DEF KnownGroup
      <4> QED
        BY <1>0, <4>3, MemberKept
    <3> QED
      BY <2>5, <3>1
  <2> QED
    BY <2>6, <2>7
<1>6. ASSUME NEW q \in todo, Troubled(q) \/ UserSent(q) \/ GroupSent(q) \/ MemberSent(q)
      PROVE  Goal(p)
  <2>1. pc \in {"add", "choose"} /\ UNCHANGED phase /\ skipped \subseteq skipped'
    BY <1>6 DEF Troubled, UserSent, GroupSent, MemberSent, Sent
  <2>2. lists'.have = lists.have
    BY <1>0, <2>1 DEF HaveStep, Confirm
  <2>3. CASE Troubled(q) \/ MemberSent(q)
    <3>1. lists' = lists
      BY <2>3 DEF Troubled, MemberSent, Sent
    <3>2. ASSUME phase = "members", p \in todo PROVE Goal(p)
      <4>1. CASE p \in todo'
        BY <2>1, <3>2, <4>1
      <4>2. CASE p \notin todo'
        <5>1. ~Troubled(q)
          BY <3>2, <4>2 DEF Troubled
        <5>2. MemberSent(q) /\ p = q
          BY <2>3, <3>2, <4>2, <5>1 DEF MemberSent, Sent
        <5>3. PICK id \in UserAt(lists, p) :
                  <<Lower[id], lists.knownGroups[GroupAt(lists, p).name].id>> \in members'
          BY <5>2 DEF MemberSent
        <5>4. ASSUME NEW x \in UserAt(lists, p) PROVE Settled1(lists, p, x)
          <6>1. x = id
            BY <5>4, OneUser
          <6> QED
            BY <5>3, <6>1 DEF Settled1, MemberThere1
        <5> QED
          BY <3>1, <5>4
      <4> QED
        BY <4>1, <4>2
    <3> QED
      BY <1>1, <2>1, <2>2, <3>1, <3>2
  <2>4. CASE UserSent(q) \/ GroupSent(q)
    BY <2>1, <2>2, <2>4 DEF UserSent, GroupSent, Course
  <2> QED
    BY <1>6, <2>3, <2>4
<1> QED
  BY <1>2, <1>3, <1>4, <1>5, <1>6, ToolStep

-----------------------------------------------------------------------------
(* The theorems.                                                            *)

\* Each part of the inductive invariant holds at the beginning and is preserved
\* by every step of the tool and of the other administrators.
THEOREM Invariance == Spec => []IInv
<1>1. Init => IInv
  <2> SUFFICES ASSUME Init PROVE IInv
    OBVIOUS
  <2>1. /\ lists = NoLists /\ fetch = <<>> /\ todo = {} /\ phase = "connect" /\ pc = "ready"
        /\ users = FirstUsers /\ groups = <<FirstGroup>>
    BY DEF Init
  <2>2. /\ IsLists(lists) /\ lists.have = {} /\ lists.ldapUsers = <<>> /\ lists.ldapGroups = <<>>
        /\ lists.knownUsers = {} /\ lists.knownGroups = <<>>
    BY <2>1 DEF NoLists, IsLists
  <2>3. Types
    <3>1. users \subseteq Lowered /\ phase \in Phases
      BY <2>1, ToolAssumption DEF Phases, Lowered
    <3>2. groups \in Seq(Text \cup {""})
      <4> DEFINE S == Text \cup {""}
      <4>1. FirstGroup \in S
        BY ToolAssumption
      <4> HIDE DEF S
      <4>2. <<FirstGroup>> \in Seq(S)
        BY <4>1
      <4> QED
        BY <2>1, <4>2 DEF S
    <3>3. fetch \in Seq(Fetches)
      BY <2>1
    <3>4. /\ lists.knownUsers \subseteq Lowered
          /\ \A i \in DOMAIN lists.ldapUsers : lists.ldapUsers[i].id \in Text
          /\ \A i \in DOMAIN lists.ldapGroups : lists.ldapGroups[i].name \in Text
      BY <2>2
    <3> QED
      BY <2>2, <3>1, <3>2, <3>3, <3>4 DEF Types
  <2>4. Course
    BY <2>1, <2>2 DEF Course
  <2>5. Known /\ UsersDone /\ GroupsDone /\ MembersDone
    BY <2>2 DEF Known, UsersDone, GroupsDone, MembersDone
  <2> QED
    BY <2>3, <2>4, <2>5 DEF IInv
<1>2. IInv /\ [Next]_vars => IInv'
  BY TypesNext, CourseNext, KnownNext, UsersDoneNext, GroupsDoneNext, MembersDoneNext DEF IInv
<1> QED
  BY <1>1, <1>2, PTL DEF Spec

\* What the tool takes for the users and groups of LLDAP (the ids and the map of
\* groups that main keeps between the phases, filled by get_lldap_users,
\* get_lldap_groups and the answers to add_user and add_group) are users and
\* groups of LLDAP, unless others have deleted or renamed them meanwhile.
THEOREM WhatItKnows == Spec => []KnownTrue
<1>1. IInv => KnownTrue
  BY DEF IInv, Known, KnownTrue, UserThere, KnownGroup
<1> QED
  BY <1>1, Invariance, PTL

\* When insert_users_into_lldap and insert_groups_into_lldap are over and nothing
\* was declined or given up, every user and every group of the LDAP server is in
\* LLDAP: no request is left out, whatever was refused, lost or tried again.
THEOREM NothingLeftOut == Spec => []AllCreated
<1>1. IInv => AllCreated
  <2> SUFFICES ASSUME IInv PROVE AllCreated
    OBVIOUS
  <2>1. phase \in {"groups", "members", "done"} /\ "users" \in lists.have \ skipped =>
            \A i \in DOMAIN lists.ldapUsers : UserThere(Lower[lists.ldapUsers[i].id])
    BY DEF IInv, UsersDone
  <2>2. phase \in {"members", "done"} /\ "groups" \in lists.have \ skipped =>
            \A i \in DOMAIN lists.ldapGroups : GroupThere(lists.ldapGroups[i].name)
    BY DEF IInv, GroupsDone
  <2> QED
    BY <2>1, <2>2 DEF AllCreated, UserThere, GroupThere
<1> QED
  BY <1>1, Invariance, PTL

\* insert_group_memberships_into_lldap leaves out no membership between a group
\* and a user, with its id in lower case, that the tool knows in LLDAP.
THEOREM MembershipsArrive == Spec => []MembershipsMigrated
<1>1. IInv => MembershipsMigrated
  <2> SUFFICES ASSUME IInv, phase = "done", "members" \in lists.have \ skipped,
                      NEW i \in DOMAIN lists.ldapGroups,
                      NEW k \in DOMAIN lists.ldapGroups[i].members,
                      NEW id \in Resolve(lists, lists.ldapGroups[i].members[k]),
                      lists.ldapGroups[i].name \in DOMAIN lists.knownGroups,
                      id \in lists.knownUsers, Lower[id] = id
               PROVE  <<id, lists.knownGroups[lists.ldapGroups[i].name].id>> \in members \cup gone
    BY DEF MembershipsMigrated
  <2> DEFINE p == <<i, k>>
  <2>1. p \in MemberPlaces(lists)
    BY DEF MemberPlaces
  <2>2. id \in UserAt(lists, p) /\ GroupAt(lists, p) = lists.ldapGroups[i]
    BY DEF UserAt, GroupAt
  <2>3. Settled(lists, p, id)
    BY <2>1, <2>2 DEF IInv, MembersDone
  <2> HIDE DEF p
  <2> QED
    BY <2>2, <2>3 DEF Settled, MemberThere
<1> QED
  BY <1>1, Invariance, PTL
=============================================================================
