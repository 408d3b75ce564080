---------------------------- MODULE MigrationTool ----------------------------
(***************************************************************************)
(* The migration tool: it reads the users and groups of another LDAP       *)
(* server and creates them, and the memberships, through the GraphQL API   *)
(* of LLDAP, asking its operator what to do about every error.             *)
(*                                                                         *)
(* The work has three phases.  In each the tool fetches the lists that it  *)
(* needs, asks for confirmation and sends one request after the other.  A  *)
(* request may be refused, get lost, or be carried out while its answer    *)
(* gets lost; meanwhile other administrators of LLDAP do their work.       *)
(* LLDAP keeps user ids in lower case and tells the names of groups apart  *)
(* without regard to case; the tool compares texts as they are spelled.    *)
(***************************************************************************)
EXTENDS Naturals, SequencesExt

CONSTANTS
    Text,       \* ids and names
    Lower,      \* a text in lower case
    LdapUsers,  \* entries of users, by the DN that the operator may enter
    LdapGroups, \* entries of groups, likewise
    FirstUsers, \* ids that LLDAP has at the beginning
    FirstGroup, \* the name of its only group
    MaxOthers   \* changes by other administrators

\* LLDAP keeps ids in lower case.
ASSUME ToolAssumption ==
    /\ Lower \in [Text -> Text] /\ \A t \in Text : Lower[Lower[t]] = Lower[t]
    /\ "" \notin Text
    /\ FirstUsers \subseteq {Lower[t] : t \in Text} /\ FirstGroup \in Text
    /\ MaxOthers \in Nat

VARIABLES
    users, groups, members,  \* LLDAP: ids; names by group id; pairs of both
    phase,    \* "connect", "users", "groups", "members", "done" or "failed"
    pc,       \* what it does next in the phase
    fetch,    \* lists that it will fetch
    lists,    \* lists that it has
    todo,     \* requests that it will send, by their places in the lists
    skipAll,  \* the operator has said "Skip all" in this phase
    skipGroup,\* the index of the LDAP group of which they said "Skip group"
    skipped,  \* history: phases with a request that was given up, or declined
    gone,     \* history: what others have deleted, renamed or removed
    others    \* history: the number of their changes

server == <<users, groups, members>>
tool == <<phase, pc, fetch, lists, todo, skipAll, skipGroup>>
history == <<gone, others>>
vars == <<server, tool, skipped, history>>

\* have: the phases whose lists the tool holds.
NoLists == [have |-> {}, ldapUsers |-> <<>>, ldapGroups |-> <<>>, knownUsers |-> {},
            knownGroups |-> <<>>]

Init ==
    /\ users = FirstUsers /\ groups = <<FirstGroup>>
    /\ members \in SUBSET (FirstUsers \X {1})
    /\ phase = "connect" /\ pc = "ready" /\ fetch = <<>> /\ lists = NoLists /\ todo = {}
    /\ skipAll = FALSE /\ skipGroup = 0
    /\ skipped = {} /\ gone = {} /\ others = 0

-----------------------------------------------------------------------------
(* Entries of the LDAP server: attributes with their values.                *)

\* The values of the first of the attributes that the entry has.
FirstOf(e, attributes) ==
    LET present == SelectSeq(attributes, LAMBDA a : a \in DOMAIN e.attrs)
    IN  IF present = <<>> THEN <<>> ELSE e.attrs[Head(present)]

\* TryFrom for User: an id and an address are required.
UserOf(e) ==
    LET id == FirstOf(e, <<"uid", "sAMAccountName", "userPrincipalName">>)
    IN  [ok |-> id # <<>> /\ FirstOf(e, <<"mail", "rfc822mailbox">>) # <<>>,
         dn |-> e.dn, id |-> IF id = <<>> THEN "" ELSE id[1]]

\* TryFrom for LdapGroup: the first of these attributes with a single value.
GroupOf(e) ==
    LET single == SelectSeq(<<"cn", "commonName", "displayName", "name">>,
                            LAMBDA a : a \in DOMAIN e.attrs /\ Len(e.attrs[a]) = 1)
    IN  [ok |-> single # <<>>, name |-> IF single = <<>> THEN "" ELSE e.attrs[Head(single)][1],
         members |-> FirstOf(e, <<"member", "uniqueMember">>)]

Converted(entries, Op(_)) == [i \in DOMAIN entries |-> Op(entries[i])]

\* The ids and names of the entries are texts.
ASSUME EntriesAssumption ==
    /\ \A ou \in DOMAIN LdapUsers : \A i \in DOMAIN LdapUsers[ou] :
          LET u == UserOf(LdapUsers[ou][i]) IN u.ok => u.id \in Text
    /\ \A ou \in DOMAIN LdapGroups : \A i \in DOMAIN LdapGroups[ou] :
          LET g == GroupOf(LdapGroups[ou][i]) IN g.ok => g.name \in Text

-----------------------------------------------------------------------------
(* What is sent in each phase: the places of users and groups, <<i, 0>>,    *)
(* and of the members of groups, <<i, k>>.                                  *)

UsersToAdd(l) ==
    {p \in (DOMAIN l.ldapUsers) \X {0} : l.ldapUsers[p[1]].id \notin l.knownUsers}

GroupsToAdd(l) ==
    {p \in (DOMAIN l.ldapGroups) \X {0} : l.ldapGroups[p[1]].name \notin DOMAIN l.knownGroups}

\* dn_resolver: of two users with the same DN the last.
Resolve(l, dn) ==
    LET found == {i \in DOMAIN l.ldapUsers : l.ldapUsers[i].dn = dn}
    IN  IF found = {} THEN {} ELSE {l.ldapUsers[Max(found)].id}

\* The user ids, at most one, and the group that the place of a membership stands for.
GroupAt(l, p) == l.ldapGroups[p[1]]
UserAt(l, p) == Resolve(l, GroupAt(l, p).members[p[2]])

MemberPlaces(l) ==
    UNION {{i} \X (DOMAIN l.ldapGroups[i].members) : i \in DOMAIN l.ldapGroups}

\* The user and the group are known; the user is not a member of it yet.
Missed(l, p) ==
    LET g == GroupAt(l, p) IN
    g.name \in DOMAIN l.knownGroups
    /\ \E id \in UserAt(l, p) : id \in l.knownUsers /\ id \notin l.knownGroups[g.name].users

\* Mutant: a member that cannot be resolved ends its group.
MembersUntilUnknown(l) ==
    {p \in MemberPlaces(l) :
        Missed(l, p) /\ \A k \in 1..p[2] : UserAt(l, <<p[1], k>>) # {}}

MembersToAdd(l) == {p \in MemberPlaces(l) : Missed(l, p)}

\* The lists that migrate_memberships still lacks, in the order it gets them.
Missing(l) ==
    CASE {"users", "groups"} \subseteq l.have -> <<>>
      [] "users" \in l.have /\ "groups" \notin l.have -> <<"get_groups", "list_groups">>
      [] "users" \notin l.have /\ "groups" \in l.have -> <<"get_users", "list_users">>
      [] OTHER -> <<"get_users", "get_groups", "list_groups", "list_users">>

-----------------------------------------------------------------------------
(* The course of the tool.                                                  *)

After == [connect |-> "users", users |-> "groups", groups |-> "members", members |-> "done"]

Working == phase \in {"users", "groups", "members"}

\* main goes on with the next phase, which begins with a question.
NextPhase ==
    /\ phase' = After[phase]
    /\ pc' = "ask" /\ skipAll' = FALSE /\ skipGroup' = 0 /\ todo' = {} /\ fetch' = <<>>
    /\ UNCHANGED lists

Fail == phase' = "failed" /\ UNCHANGED <<pc, fetch, lists, todo, skipAll, skipGroup>>

\* "Are you ready to start?"
Ready(yes) ==
    /\ phase = "connect" /\ pc = "ready"
    /\ IF yes THEN pc' = "bind" /\ UNCHANGED phase ELSE phase' = "done" /\ UNCHANGED pc
    /\ UNCHANGED <<fetch, lists, todo, skipAll, skipGroup, server, skipped, history>>

\* get_ldap_connection asks until the bind succeeds; without a domain in the DN
\* of the bind it panics.
ConnectLdap ==
    /\ phase = "connect" /\ pc = "bind"
    /\ (pc' = "login" /\ UNCHANGED phase) \/ (phase' = "failed" /\ UNCHANGED pc)
    /\ UNCHANGED <<fetch, lists, todo, skipAll, skipGroup, server, skipped, history>>

\* get_lldap_client: likewise until the login succeeds.
ConnectLldap ==
    /\ phase = "connect" /\ pc = "login"
    /\ NextPhase
    /\ UNCHANGED <<server, skipped, history>>

\* "Do you want to import ...?"
Ask(yes) ==
    /\ Working /\ pc = "ask"
    /\ IF yes
       THEN /\ pc' = "fetch"
            /\ fetch' = CASE phase = "users" -> <<"list_users", "get_users">>
                          [] phase = "groups" -> <<"list_groups", "get_groups">>
                          [] OTHER -> Missing(lists)
            /\ UNCHANGED <<phase, lists, todo, skipAll, skipGroup, skipped>>
       ELSE NextPhase /\ skipped' = skipped \cup {phase}
    /\ UNCHANGED <<server, history>>

\* The next list is there.
Fetched(which, l) ==
    /\ Working /\ pc = "fetch" /\ fetch # <<>> /\ Head(fetch) = which
    /\ lists' = l /\ fetch' = Tail(fetch)
    /\ UNCHANGED <<phase, pc, todo, skipAll, skipGroup, server, skipped, history>>

ListUsers == Fetched("list_users", [lists EXCEPT !.knownUsers = users])

ListGroups ==
    Fetched("list_groups", [lists EXCEPT !.knownGroups =
        [n \in Range(groups) \ {""} |->
            LET i == CHOOSE i \in DOMAIN groups : groups[i] = n
            IN  [id |-> i, users |-> {u \in users : <<u, i>> \in members}]]])

\* All the entries under the DN that the operator enters, if each is a user.
GetUsers(ou) ==
    LET us == Converted(LdapUsers[ou], UserOf) IN
    /\ \A i \in DOMAIN us : us[i].ok
    /\ Fetched("get_users", [lists EXCEPT !.ldapUsers = us])

GetGroups(ou) ==
    LET gs == Converted(LdapGroups[ou], GroupOf) IN
    /\ \A i \in DOMAIN gs : gs[i].ok
    /\ Fetched("get_groups", [lists EXCEPT !.ldapGroups = gs])

\* An error of either server, or an entry that cannot be converted.
FetchFails ==
    /\ Working /\ pc = "fetch" /\ fetch # <<>>
    /\ Fail
    /\ UNCHANGED <<server, skipped, history>>

ToAdd(l) ==
    CASE phase = "users" -> UsersToAdd(l) [] phase = "groups" -> GroupsToAdd(l)
      [] OTHER -> MembersToAdd(l)

\* The lists are there.  New users and groups are added if the operator agrees,
\* who is not asked about none; memberships are added at once.
Confirm(yes) ==
    /\ Working /\ pc = "fetch" /\ fetch = <<>>
    /\ lists' = [lists EXCEPT !.have = @ \cup {phase}]
    /\ pc' = "add"
    /\ todo' = IF yes \/ phase = "members" THEN ToAdd(lists) ELSE {}
    /\ skipped' = IF todo' = ToAdd(lists) THEN skipped ELSE skipped \cup {phase}
    /\ UNCHANGED <<phase, fetch, skipAll, skipGroup, server, history>>

-----------------------------------------------------------------------------
(* Requests.                                                                *)

\* The requests are sent in the order of the lists; p is the next.
IsNext(p) ==
    p \in todo /\ \A q \in todo : p[1] < q[1] \/ (p[1] = q[1] /\ p[2] <= q[2])

GivesUp(p) == todo' = todo \ {p} /\ skipped' = skipped \cup {phase}

\* Mutant: what the operator has said is not remembered.
AlwaysAsks(p) == FALSE

\* An error that the operator need not be asked about.
SkipsQuietly(p) == skipAll \/ (phase = "members" /\ skipGroup = p[1])

Error(p) ==
    /\ IF SkipsQuietly(p) THEN GivesUp(p) /\ UNCHANGED pc
       ELSE pc' = "choose" /\ UNCHANGED <<todo, skipped>>
    /\ UNCHANGED lists

\* A request that LLDAP carries out if it accepts it, unless it does not arrive
\* or is refused for another reason.  The answer may get lost.
Post(p, accepted, effect, noted) ==
    /\ \/ /\ accepted /\ effect
          /\ \/ lists' = noted /\ todo' = todo \ {p} /\ UNCHANGED <<pc, skipped>>
             \/ Error(p)
       \/ UNCHANGED server /\ Error(p)
    /\ UNCHANGED <<phase, fetch, skipAll, skipGroup, history>>

Adding(ph, p) == phase = ph /\ pc = "add" /\ IsNext(p)

\* Mutant: the id is noted as it was sent.
NotedAsSent(id) == [lists EXCEPT !.knownUsers = @ \cup {id}]

\* The id comes from the answer.
NotedUser(id) == [lists EXCEPT !.knownUsers = @ \cup {Lower[id]}]

AddUser(p) ==
    /\ Adding("users", p)
    /\ LET id == lists.ldapUsers[p[1]].id IN
       Post(p, Lower[id] \notin users,
            users' = users \cup {Lower[id]} /\ UNCHANGED <<groups, members>>,
            NotedUser(id))

NameTaken(n) == Lower[n] \in {Lower[x] : x \in Range(groups) \ {""}}

NotedGroup(n, i) ==
    [lists EXCEPT !.knownGroups = [x \in DOMAIN @ \cup {n} |->
                                      IF x = n THEN [id |-> i, users |-> {}] ELSE @[x]]]

AddGroup(p) ==
    /\ Adding("groups", p)
    /\ LET n == lists.ldapGroups[p[1]].name IN
       Post(p, ~NameTaken(n),
            groups' = Append(groups, n) /\ UNCHANGED <<users, members>>,
            NotedGroup(n, Len(groups) + 1))

AddMember(p) ==
    /\ Adding("members", p)
    /\ \E id \in UserAt(lists, p) :
          LET i == lists.knownGroups[GroupAt(lists, p).name].id
              u == Lower[id]
          IN  Post(p, u \in users /\ groups[i] # "" /\ <<u, i>> \notin members,
                   members' = members \cup {<<u, i>>} /\ UNCHANGED <<users, groups>>,
                   lists)

\* Mutant: trying again goes on to the next.
RetryNext(choice, p) ==
    /\ Working /\ pc = "choose" /\ IsNext(p)
    /\ choice \in {"Skip", "Retry"}
    /\ pc' = "add" /\ todo' = todo \ {p}
    /\ skipped' = IF choice = "Skip" THEN skipped \cup {phase} ELSE skipped
    /\ UNCHANGED <<phase, fetch, lists, skipAll, skipGroup, server, history>>

\* The operator's answer to an error.
Choose(choice, p) ==
    /\ Working /\ pc = "choose" /\ IsNext(p)
    /\ \/ choice = "Skip" /\ pc' = "add" /\ GivesUp(p) /\ UNCHANGED <<phase, skipAll, skipGroup>>
       \/ /\ choice = "Retry" /\ pc' = "add"
          /\ UNCHANGED <<phase, todo, skipAll, skipGroup, skipped>>
       \/ /\ choice = "Skip all" /\ skipAll' = TRUE
          /\ pc' = "add" /\ GivesUp(p) /\ UNCHANGED <<phase, skipGroup>>
       \/ /\ choice = "Skip group" /\ phase = "members" /\ skipGroup' = p[1]
          /\ pc' = "add" /\ GivesUp(p) /\ UNCHANGED <<phase, skipAll>>
       \/ /\ choice = "Abort" /\ phase' = "failed"
          /\ UNCHANGED <<pc, todo, skipAll, skipGroup, skipped>>
    /\ UNCHANGED <<fetch, lists, server, history>>

EndPhase ==
    /\ Working /\ pc = "add" /\ todo = {}
    /\ NextPhase
    /\ UNCHANGED <<server, skipped, history>>

-----------------------------------------------------------------------------
(* Other administrators.  A deleted group keeps its id, with no name.       *)

Other == others < MaxOthers /\ others' = others + 1 /\ UNCHANGED <<tool, skipped>>

OtherCreatesUser(u) ==
    /\ Other /\ Lower[u] \notin users
    /\ users' = users \cup {Lower[u]}
    /\ UNCHANGED <<groups, members, gone>>

OtherDeletesUser(u) ==
    /\ Other /\ u \in users
    /\ users' = users \ {u} /\ members' = {m \in members : m[1] # u}
    /\ gone' = gone \cup {<<"user", u>>} \cup {m \in members : m[1] = u}
    /\ UNCHANGED groups

OtherCreatesGroup(n) ==
    /\ Other /\ ~NameTaken(n)
    /\ groups' = Append(groups, n)
    /\ UNCHANGED <<users, members, gone>>

\* The new name may be the old one in another case.
OtherRenames(i, n) ==
    /\ Other /\ groups[i] # ""
    /\ ~NameTaken(n) \/ Lower[n] = Lower[groups[i]]
    /\ groups' = [groups EXCEPT ![i] = n]
    /\ gone' = gone \cup {<<"group", Lower[groups[i]]>>}
    /\ UNCHANGED <<users, members>>

OtherDeletesGroup(i) ==
    /\ Other /\ groups[i] # ""
    /\ groups' = [groups EXCEPT ![i] = ""] /\ members' = {m \in members : m[2] # i}
    /\ gone' = gone \cup {<<"group", Lower[groups[i]]>>} \cup {m \in members : m[2] = i}
    /\ UNCHANGED users

OtherAdds(u, i) ==
    /\ Other /\ u \in users /\ groups[i] # "" /\ <<u, i>> \notin members
    /\ members' = members \cup {<<u, i>>}
    /\ UNCHANGED <<users, groups, gone>>

OtherRemoves(m) ==
    /\ Other /\ members' = members \ {m} /\ gone' = gone \cup {m}
    /\ UNCHANGED <<users, groups>>

-----------------------------------------------------------------------------
Stopped == phase \in {"done", "failed"} /\ UNCHANGED vars

Sending == \E p \in todo : AddUser(p) \/ AddGroup(p) \/ AddMember(p)

Next ==
    \/ ConnectLdap \/ ConnectLldap \/ ListUsers \/ ListGroups \/ FetchFails
    \/ (\E ou \in DOMAIN LdapUsers : GetUsers(ou))
    \/ (\E ou \in DOMAIN LdapGroups : GetGroups(ou))
    \/ Sending \/ EndPhase \/ Stopped
    \/ \E yes \in BOOLEAN : Ready(yes) \/ Ask(yes) \/ Confirm(yes)
    \/ \E choice \in {"Skip", "Retry", "Skip group", "Skip all", "Abort"}, p \in todo :
          Choose(choice, p)
    \/ \E u \in Text : OtherCreatesUser(u) \/ OtherDeletesUser(u) \/ OtherCreatesGroup(u)
    \/ \E i \in DOMAIN groups : OtherDeletesGroup(i)
          \/ (\E n \in Text : OtherRenames(i, n) \/ OtherAdds(n, i))
    \/ \E m \in members : OtherRemoves(m)

Spec == Init /\ [][Next]_vars

\* The tool goes on by itself: its requests have a timeout.
FairSpec == Spec /\ WF_vars(Sending \/ EndPhase)

-----------------------------------------------------------------------------
(* Properties.                                                              *)

\* What the tool takes for the users and groups of LLDAP are users and groups
\* of LLDAP, with their ids there, whatever was refused, lost or tried again.
KnownTrue ==
    /\ \A u \in lists.knownUsers : u \in users \/ <<"user", u>> \in gone
    /\ \A n \in DOMAIN lists.knownGroups :
          groups[lists.knownGroups[n].id] = n \/ <<"group", Lower[n]>> \in gone

\* If nothing was declined or given up, every user and group of the LDAP server
\* is in LLDAP when its phase is over, or was there until others changed that.
AllCreated ==
    /\ phase \in {"groups", "members", "done"} /\ "users" \in lists.have \ skipped =>
          \A i \in DOMAIN lists.ldapUsers :
              LET id == Lower[lists.ldapUsers[i].id] IN id \in users \/ <<"user", id>> \in gone
    /\ phase \in {"members", "done"} /\ "groups" \in lists.have \ skipped =>
          \A i \in DOMAIN lists.ldapGroups :
              LET n == lists.ldapGroups[i].name IN NameTaken(n) \/ <<"group", Lower[n]>> \in gone

\* The memberships of the LDAP server between users and groups that the tool
\* knows in LLDAP are in LLDAP when it is done, if the operator gives up none
\* (insert_group_memberships_into_lldap).  This is for ids in lower case: the
\* others are compared as they are spelled, and left out.
MembershipsMigrated ==
    phase = "done" /\ "members" \in lists.have \ skipped =>
        \A i \in DOMAIN lists.ldapGroups :
            LET g == lists.ldapGroups[i] IN
            \A k \in DOMAIN g.members : \A id \in Resolve(lists, g.members[k]) :
                g.name \in DOMAIN lists.knownGroups /\ id \in lists.knownUsers /\ Lower[id] = id =>
                    <<id, lists.knownGroups[g.name].id>> \in members \cup gone

\* After "Skip all" the phase comes to its end without another question.
SkipAllEnds == skipAll ~> ~skipAll

=============================================================================
