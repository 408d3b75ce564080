# LLDAP in TLA+

A verification development of the LLDAP server: TLA+ modules translated from the
Rust source, TLC runs that check them on small instances, and TLAPS proofs that
hold for every value of the constants. `PROJECT.json` maps every definition to
the lines it models and lists the runs, the mutants that show each property can
fail, the hazards the properties are for, and the theorems.

## The system

LLDAP is a small LDAP server for users and groups with a web interface. One
process serves LDAP (`ldap_server.rs`, `ldap_handler.rs`) and HTTP
(`tcp_server.rs`: `auth_service.rs` for logins, a GraphQL API for everything
else) over one SQL database. All handlers are asynchronous tasks: they run until
an `await` on a database query, and other tasks run meanwhile. Most handlers do
several queries outside of any transaction. This, together with permissions
that are read once and kept (in JWTs, in LDAP sessions), the blacklist that
lives in memory and in the database, and restarts, is what makes the code hard
to test.

| Component | State | Operations | Interacts with | What makes it correct |
|---|---|---|---|---|
| HTTP sessions (`auth_service.rs`, `sql_backend_handler.rs`, `jwt_sql_tables.rs`) | `jwt_storage`, `jwt_refresh_storage`, `password_reset_tokens`; the blacklist in memory | login, refresh, logout, password reset (two steps) | users (tokens go with their user), cleaner, start-up (rebuilds the blacklist) | JWTs are on record while they live; a logout ends what it should, durably; a refused JWT stays refused |
| Cleaner (`db_cleaner.rs`) | none of its own | hourly: delete expired rows of three tables | sessions | deletes nothing that is still needed, and in the end everything else, even if one delete fails |
| Start-up (`main.rs`, `configuration.rs`, `sql_tables.rs`) | key file, key hash in `metadata`, built-in groups, the administrator | find or make the key, check it, create groups and administrator, force flags | everything: it decides whether the server serves | passwords stay usable, no account is taken over, a serving server has an administrator, a start that was cut short can be repeated |
| Users, groups, memberships (`sql_user_backend_handler.rs`, `sql_group_backend_handler.rs`) | `users`, `groups`, `memberships` | create, update, delete, add, remove | all others | references are kept by cascades |
| Access control (`access_control.rs`) | none; permissions in JWTs and sessions | permission from groups, which handler a caller gets | GraphQL, LDAP, password changes | somebody stays administrator; passwords of administrators are out of reach for password managers |
| GraphQL API (`graphql/`) | none | queries and mutations, with guards of their own | access control, back end | its guards hold together under interleaving |
| LDAP (`ldap_handler.rs`, `ldap_server.rs`, `domain/ldap/`) | `user_info` of each connection | bind, unbind, search, compare, add, modify, extended | access control, back end | as above; one request at a time per connection |
| Attribute schema and values (`sql_schema_backend_handler.rs`, `schema.rs`, `deserialize.rs`) | `*_attribute_schema`, `*_attributes` | add and delete attributes, set and delete values, read | GraphQL, LDAP | values belong to the schema and can be decoded |
| Listings (`list_users`, `list_groups`) | none | two queries and a merge | LDAP searches, GraphQL queries | everyone gets their own attributes, and all of them |
| OPAQUE (`sql_opaque_handler.rs`, `auth/src/opaque.rs`) | `password_hash`; the state of a protocol run is sealed and sent to the client | login and registration, two requests each; plain bind | HTTP, LDAP, the forms | a login succeeds with a password that was the user's; a password file fits the server's key |
| Migrations (`sql_migrations.rs`, `sql_tables.rs`) | `metadata.version` and the tables | `upgrade_to_v1`, then one transaction per version | start-up | nothing is lost; version and tables agree; every interrupted upgrade can go on |
| Filters and searches (`domain/ldap/`, `ldap_handler.rs`, `graphql/query.rs`, the filter expressions of the back end) | none | LDAP or GraphQL filter to SQL; search, compare, query | listings, access control | the SQL selects what the filter says; regular users see what is theirs |
| Forms of the web front end (`app/src/components/login.rs`, `change_password.rs`, `reset_password_step2.rs`, `common_component.rs`) | fields, the task that runs, data kept between two answers | submit, answer, error, leaving the page | OPAQUE over HTTP | no panic, never stuck; the old password is asked for |
| set-password (`set-password/src/main.rs`) | none | log in if needed, register | OPAQUE over HTTP | as above |
| Migration tool (`migration-tool/`) | lists read from the LDAP server and from LLDAP | users, groups, memberships, each with questions to the operator | GraphQL API | what was to be migrated is there; what it believes of LLDAP is true |
| Other pages of the front end, health check, mail delivery, logging, command line | none in the server | | | not modelled, see below |

## The modules

| Module | Stands for | Extended by |
|---|---|---|
| `Sessions` | HTTP sessions and cleaner | `MCSessions`, `SessionsProofs` |
| `Startup` | start-up, with a running server reduced to what later starts depend on | `MCStartup`, `StartupProofs` |
| `Directory` | users, groups and memberships under access control; JWTs and LDAP sessions as holders of permissions; registrations | `MCDirectory`, `DirectoryProofs` |
| `Attributes` | schema and values under concurrent requests | `MCAttributes`, `AttributesProofs` |
| `Listing` | the merge of the two queries of a listing | `MCListing`, `DirectoryProofs` |
| `SchemaUpgrade` | abstract: what an upgrade of the database promises | instantiated by `Migrations` |
| `Migrations` | every statement of every migration, kills, errors and restarts | `MCMigrations`, `MigrationsProofs` |
| `Filters` | operators: field names, distinguished names, conversion of filters, conditions of SQL | `Search` |
| `Search` | searches, comparisons and queries over changing tables | `MCSearch`, `SearchProofs` |
| `Opaque` | the steps of the OPAQUE handlers, symbolically | `PasswordForms` |
| `PasswordForms` | the password forms, set-password and the server's password files | `MCPasswordForms`, `PasswordFormsProofs` |
| `MigrationTool` | a run of the migration tool, its operator, and LLDAP | `MCMigrationTool`, `MigrationToolProofs` |

The `MC` modules only add values for constants and symmetry sets; the `.cfg`
files give values to constants and name the properties.

### Sessions

One action per database query, each with the code that follows it up to the next
query. `task` holds the handlers in flight with their program counter (`pc`,
named after the query to come) and their local variables: the user, the token
of the request, the JWT in the making, and for a logout the JWTs the SELECT
found. `jwtStorage`, `dbBlacklisted`, `jwtRefreshStorage` and
`passwordResetTokens` are the tables, `jwtBlacklist` is `AppState.jwt_blacklist`.
`minted` says what each token claims. `TaskFails` is a query that returns an
error, or a panic of the handler. `Restart` drops the tasks and rebuilds the
blacklist as `build_tcp_server` does. The clock (`now`) may advance between any
two steps. `held`, `orphaned` and `loggedOut` are history variables for the
properties.

Simplified: the clock is read together with the query that uses it; a client
presents only tokens it received; a response is not lost (a lost one is a
client that never uses its token); one HTTP worker, as `main.rs` starts it.

### Startup

The steps of `set_up_server` in order, one per write to the disk or the
database; `pc = "down"` is no process, `pc = "serving"` a running server. The
operator starts the server with any configuration of `Configs`. A fault is a
process that is killed, a query that fails, or a key file that is lost between
two starts; `ListAdmins` takes a failed query for "no administrator", as the code
does. The group ids are reduced to "1 or not", because that is what the guards of
`mutation.rs` look at, and an insert that is rolled back may use up an id. The
actions of a running server are those that a later start can notice. `email` is the
column with the unique index: `CanInsert` is the insert of the administrator, which
meets both the name and the address of an account, and a running server can give
the configured address to anybody (`CreateUser`, `ChangeEmail`).

Simplified: a fresh database (an upgrade of one without a key hash is left to the
migrations), one process at a time.

### Directory

The tables are `users`, `name` (of each group id), `members` and `password`.
`tokens` are the claims of all JWTs ever handed out; they are never taken away,
so that expiry and blacklist (module `Sessions`) can only remove behaviours. A
mutation takes the claims from a JWT (`AsAdmin`), not from the groups of the
moment. A registration over HTTP is a `grant` after `opaque_register_start`: the
server keeps nothing, the client gets sealed data that names the user and can be
used at any time, repeatedly. An LDAP connection is its `user_info` and the
request at hand, with the reads and the write of a request as separate actions.
A regular user who asks for another user's password change meets an `expect` and
loses the connection, which is what `LdapModify` does.

`stale`, `steady` and `foreign` are history: whether someone acted as
administrator who was not one any more, who has been administrator since the
start, and whose password was last set by somebody else without the
administrator's permission.

Simplified: the two queries of `get_user_groups` are one step; passwords are
set or not set.

### Attributes

A value is the type it was serialized as. A request reads the schema when it
begins, serializes its values by it, and commits in one transaction that looks
the names up again. `Public` is `PublicSchema`: the table's rows, then the
columns of `users` that look like attributes. Deleting an attribute is a check on
a snapshot and a deletion by name. Readers hold an old schema, too. The rest is
history: `added` (of a request) are the attributes added to the schema since the
request read it, `late` the values written by a request that lived through the
addition of their attribute, `misread` the attributes of which a value was decoded
as another type outside of these two windows. `ReadersSafe` says that there are
none: an attribute may be deleted and added again with another type as often as
one likes, and only a request that was under way at an addition can write or meet a
value of the wrong type. Attributes of groups have the same code.

### Listing

Ids and attribute names are numbers in the order of the database. The filter is
the set it selects, which other requests may change between the two queries.
`Ordered` is `ORDER BY`: the element at place `k` has `k - 1` before it. `rows` and
`next` are the peekable iterator over the second query, `Run` is `take_while_ref`,
and `Populate` the body of the loop over the entities, one action per entity.
While the loop runs (`pc = "merging"`) no other request is taken: it could not
change the answer any more. `ListingInit`, `ListingSpec` and so on have names of
their own because `DirectoryProofs` extends `Directory` and `Listing`.

### Migrations and SchemaUpgrade

`Script[v]` is the list of the statements of the migration to version `v`, in the
order of the code, and `at` says which one comes next. `db` is what the
connection sees, `disk` what is durable: `Write` keeps both apart inside a
transaction, and lets them meet at the commit, at every statement of the first
migration (which has no transaction) and at every change of a table on MySQL.
`Executed` is what a statement does, `Refused` why it fails (a column or table
that is missing or there already, rows that violate an index). Loops of the code
that work row by row (`fill`, the uuids) are one action per row. `Kill` is a
killed process or a failed statement; `VersionUnread` and `ErrorIgnored` are the
errors that the code takes for an answer, counted by `errors`; `RemoveConflict`
is the operator who removes duplicates that the server complained about.
`origin` and `torn` are history: the texts at the first start, and whether a
start ended while it filled in uuids.

`SchemaUpgrade` says what a reader of the database may rely on: version, tables and
texts move to the next version in one step. `UpgradeAtomic` is that `Migrations`
implements it, with `bound` mapped to "the database has transactional DDL and no
error was taken for an answer": outside of that the promise is off, and
`NamesKept` and `VersionNeverAhead` are what is left.

Simplified: of the rows of `users`, the cells of one are kept; column types and
lengths are left out.

### Filters and Search

A filter is the sequence of its nodes: leaves (`Equality`, `Present`, `Substring`)
and connectives, each of them after the nodes it combines, which it names by their
places (`of`); the last node is the root. So the recursion of the code over filters
becomes a function over places: `ConvertUserFilter`, `ConvertGroupFilter` and
`ConvertRequestFilter` translate the filters of LDAP and GraphQL node by node
(`UserNode`, `GroupNode`, `RequestNode`) to those of the back end, and one `Error`
anywhere is an error of the whole (`collect::<LdapResult<_>>`). `Truth` is the value
of each node, from those of the leaves (`UserAtom`, `GroupAtom`): the conditions of
SQL, which are true, false or NULL. `UserAll` and `GroupAll` are the values that the
code collects for a field of an entry, `UserValues` and `GroupValues` those it shows:
one empty text alone is not shown (`Shown`). E-mail addresses, names of groups and
values may be empty, which is not the same as NULL (`NoText`). `Matches` in `Search` is
the reference: what a filter means for the values of an entry.

A distinguished name is a sequence of pairs as it was put together (`UserDn`,
`GroupDn`); `ParseDn` is what `parse_distinguished_name` makes of its text. The code
splits at commas and equals signs and trims, without any escapes, so the text of a
name may read as something else: `Pieces` says for each text that does how its first
pair and the further ones are read, or that the DN is an error. In the run there are
ids and names that are trimmed to another one (`" a"`, `" g"`) and one that breaks its
DN (`"g,h"`); a comma may also begin a further pair, which the proofs cover.

`Search` holds the tables (`db`) and one request. A search reads the schema, lists
the users, lists the groups, and returns, each in a step of its own; so does a
query of the GraphQL API. Each of these steps may fail with an error of the database
(`fails`); a query is also refused for an invalid filter and for a user or group that
does not exist (`Answered`, with `refused`). `Change` is every request that changes the
tables in between; once an answer is made (`found`, `answered`) it is returned
first, since nothing can change it any more. `Restricted` is
`UserRestrictedListerBackendHandler`.

Simplified: the two queries of `list_users` are one step (module `Listing` has
them as two); text comparison is that of SQLite and PostgreSQL (the collations of
MySQL ignore case everywhere); the value of the creation date is one constant.
Two peculiarities of the code are kept, and `FilterMeaning` is stated around them: an
equality on a display name or a custom attribute compares the value in lower case with the
stored text as it is, and `Present` asks whether the field is supported, not
whether the entry has a value: `(mail=*)` finds users with an empty address.
`FilterMeaning` takes the values an entry is found by (`UserAll`), so `(mail=)` is exact,
and the exceptions are the two just named.

### Opaque and PasswordForms

A password file is the password and the key it was made with. The answer of
`login_start` proves a password or does not; the sealed state that the client
carries has no expiry. In `PasswordForms` a client has one form at a time (`Login`,
`Change`, `AdminChange`, `Reset`, or `Tool` for set-password) and at most one request, whose
`pc` is `sent`, `ok` or `error`. `form` is the component: the fields, whether a
task is running and the button is disabled (that follows only at the next
rendering), and the data that an answer leaves for the next one. A request or its
answer can be lost before or after the server has done its work. `OtherRegisters`
stands for all other clients, which meet this one only in the table of
the server. `ServeRefresh` and `ServeResetToken` hand out a JWT, or the request fails
(`Lost`); when they do is the matter of `Sessions`. `Rekey` is a restart with another key. `during` is history: the
passwords that the user has had since the request began.

Simplified: the cryptography; the token of the session (module `Sessions`).

### MigrationTool

The phases users, groups and memberships, each with its confirmation, its lists
(`fetch`, `lists`), its requests (`todo`) and the choices after an error. A request
in `todo` is a place in the lists: `<<i, 0>>` is the user or group `i`, `<<i, k>>` the
member `k` of the group `i`; `IsNext` is the order in which the loops send them. `Post`
is a request: refused, lost, carried out with its answer lost, or answered. LLDAP
begins with users, a group and any memberships of them. The other administrators
create, rename and delete, add and remove members between any two steps, so that a
membership to migrate may be there already. `UserOf` and `GroupOf` convert LDAP entries;
texts are compared as they are spelled, while LLDAP lowers the case of ids.
`gone` and `skipped` are history: what others took away, and what the operator
gave up.

Simplified: attributes that are only copied, and the suggestions for
distinguished names.

## Runs

| Run | Expected | What it shows |
|---|---|---|
| `sessions` | pass | two handlers of any kind, cleaner, clock, user deletion and one restart, interleaved at every query: `HeldJwtsRegistered`, `LogoutDurable`, `RejectionStable`; no row of the three tables outlives its user (`TypeOK`) |
| `sessions_cleaner` | pass | `StaleRowsRemoved`: expired rows go in the end although the first delete may fail every time |
| `logout_enforced` | violation | a JWT registered between SELECT and UPDATE of a logout is never put into the blacklist in memory (`docs/architecture.md`) |
| `startup` | pass | any sequence of starts with one fault and an active administrator: `PasswordsUsable`, `PasswordsKept`, `AdminGroupFound`, `ServingHasAdmin` |
| `startup_recovery` | pass | `RestartRecovers`: with two faults, restarting leads to a serving server, or to a state that needs the operator (`Stuck`) |
| `directory` | pass | `AdminRemains`, `AdminsProtected` under permissions that outlive the groups they came from |
| `attributes` | pass | `HardcodedKept`, `ValuesTyped`, `ReadersSafe` with two requests in flight and a changing schema |
| `listing` | pass | `OnlyOwnAttributes`, `CompleteUnlessBlocked` for every change of the tables between the queries |
| `migrations` | pass | upgrades from every version on three kinds of databases: no text is lost (`NamesKept`), the version is not ahead of the tables (`VersionNeverAhead`), uuids are missing only after an interrupted first migration (`BlankOnlyIfTorn`), `SchemaUpgrade` is implemented (`UpgradeAtomic`), restarts lead to a serving server unless the database is `Blocked` (`UpgradeCompletes`) |
| `search` | pass | `RegularSeesOwn` and `QueryFailsOnlyWhenRaced` while the tables change between the steps of a request and its queries may fail; in every content of the tables `FilterMeaning`, with empty texts and names that change when a DN is parsed, `SubtreeConsistent`, with errors of the filter or the database on either side, and `ComparesMembers` for every comparison |
| `password_forms` | pass | `FormsNeverPanic`, `LoginByPassword`, `ChangeNeedsOld`, `FilesUsable` and `Settles` for every order of clicks, keystrokes, answers, losses, deletions and restarts |
| `migration_tool` | pass | `KnownTrue`, `AllCreated`, `MembershipsMigrated`, `SkipAllEnds` for every answer of the operator, refusals, lost answers, retries and other administrators |

### Bounds

* `sessions`: one user, three tokens, two handlers, a clock up to 2 with
  lifetimes 1, one restart. A race needs two handlers; three tokens are a refresh
  token, a JWT of before and one made during the logout; two ticks make a token
  live, at its limit and expired. Users do not share rows, so one is enough.
* `startup`: two users, so that the configured name can change and an account can
  be in the way; two random keys and a seed, so that the key can change both
  ways; two addresses, of which every configuration has the first, so that it can be
  taken or free; one fault. `startup_recovery` has two users, too, and two faults.
* `directory`: two users, two groups, one LDAP connection and one registration
  begun over HTTP. Two administrators are what it takes to remove each other; the
  second group is the password managers' or any other by renaming. The theorems
  have no such bounds.
* `attributes`: one user, a built-in, a virtual and a custom attribute, two types,
  two requests, each naming one attribute (`MaxNamed`), which may be deleted and
  inserted at once. Attributes and users do not influence each other.
* `listing`: three ids and two attributes: something before, between and after.
* `migrations`: two users and one group (a loop over rows can stop in between;
  two empty uuids violate the index that comes later), databases of no version, of
  every version and of one that is newer than the server, a text in `display_name`, which stays a
  column, and in `first_name`, which becomes an attribute (`last_name` and `avatar` take the same path),
  one kill (`MaxKills`) and one ignored error (`MaxErrors`), at every statement.
* `search`: two users, whose ids differ by a blank that a parser of DNs drops, two
  groups with three names, two of them the same up to case and one that breaks its
  DN, e-mail addresses and display names that may be empty, one attribute; every
  content of the tables. 67 filters for their meaning (`AnyFilter`: every kind of leaf, alone,
  negated, and in a negated disjunction), one more for requests in steps and for the
  subtrees (`LdapFilter`; while the caller sees the attribute it is an error for users
  only), two search bases, one of them unreadable, and two filters of GraphQL, one of
  them invalid.
* `password_forms`: one user, one client and all others together, two keys, three
  passwords of which one is too short, and fields that are right, swapped, too
  short and not confirmed.
* `migration_tool`: two users to migrate, one with a capital in the id, two groups,
  one with the name of a user and a member that is unknown, every set of memberships
  of the users that LLDAP has, and up to two changes by others (`MaxOthers`): two are
  enough to delete and create again, or to rename and take the old name.

Symmetry is used for tokens, handlers, users and keys, which the modules only
compare, and not in the runs with liveness properties.

### Fairness

* `sessions_cleaner`: weak fairness of the cleaner (the actor's timer fires every
  hour, and an error of a query does not stop it) and strong fairness of the
  second and third delete (a delete that is tried again and again on a working
  table succeeds at last). Nothing is assumed of the first delete.
* `startup_recovery`: weak fairness of the steps of a start (a process that is not
  killed goes on) and of starting again (a service manager or the container
  runtime). Faults are bounded.
* `migrations`: the same two. Nothing is assumed of the operator (`RemoveConflict`)
  or of an administrator stopping the server.
* `password_forms`: weak fairness of the settling of a request (the browser ends
  every `fetch` with an answer or an error) and of the handling of the answer (the
  component's message queue). Nothing is assumed of the user.
* `migration_tool`: weak fairness of the tool's own steps, because its HTTP client
  has a timeout. Nothing is assumed of the operator's answers.

Deadlock checking is on everywhere: none of these systems may come to a halt.

## Proofs

All theorems are checked by TLAPS for any sets of users, tokens, keys, groups,
connections, attributes, types, requests, clients, rows and LDAP entries, and any
numbers of kills, errors and changes by others, under the `ASSUME`s of the modules:
that "no value" constants are not values and bounds are numbers; in `Startup` that
random keys and seeds differ; in `Listing` that ids and names are finitely many (the
columns have a width); in `PasswordForms` that there are a user and something to type;
in `MigrationTool` that lowering the case twice is lowering it once, that the ids of
LLDAP are in lower case, and that the ids and names of LDAP entries are texts, none
of them empty. In `Filters` and `Search`: lowering the case twice is lowering it once,
and leaves ids, uuids, object classes and the base DN alone, because the code has them
in lower case already (`UserId::new`, `Uuid`, `parse_distinguished_name`); parsing leaves
the base DN alone, which has been parsed, and `people` and `groups`, and makes no
capitals; no text is one of the marks of the model (`Marks`: NULL, and the texts that
stand for a DN or a pattern); there are object classes of users; filters name their children before themselves and name known fields;
`givenname` is one of them only if there is the `first_name` it stands for, as in every
database (`migrate_to_v5`). The inductive invariants were checked by TLC on the instances of the
runs before they were proved.

* `SessionsProofs`: a JWT is *gone* when it has expired or its row went with its
  user. This is stable, so "blacklisted in the database, or gone" survives the
  cleaner and deletions. `IInv` carries it through the steps of a logout
  (`LogoutInv`: at each step, which tokens the handler is still responsible for),
  says that the blacklist in memory never knows more than the database
  (`BlacklistDurable`, which makes a restart harmless), and that handlers hold
  tokens that nobody else has (`CreatorInv`, `DistinctTokens`).
* `StartupProofs`: after the key check the key on record is the server's
  (`KeyKnown`), and without a forced update all password files were made with the
  key on record (`FilesMatchRecord`), also while no process runs. `StartProgress`
  says what each step of a start can rely on.
* `DirectoryProofs`: `lldap_admin` is the name of group 1 and of no other
  (`AdminGroup`), which joins the guards, that look at the id, to the permission,
  that looks at the name. `BegunByRight`: what was begun for a steady
  administrator's password was begun by themself or an administrator; it holds on
  since nobody becomes steady later.
* `AttributesProofs`: the type a request holds for an attribute is that of the schema of
  the moment, if the attribute is still there and was not added since the request read
  it (`SchemaHeld`); so what it writes has that type too, or is `late`, and what a reader
  decodes fits. No request is
  about to delete a built-in attribute (`HardcodedSpared`; the flag never becomes
  true, so the early check holds on).
* `DirectoryProofs`, on `Listing`: `OrderedFacts` says what `ORDER BY` returns, for any strict total
  order of a finite set: every element once, each before the next ones. The rest is
  the loop invariant of the merge (`Position`): before the entity `i`, the iterator
  has passed the rows of the smaller ids and no others, unless `i` is `Blocked`. It
  needs that the rows are grouped by id (`RowsGrouped`), that the list ascends
  (`Ascends`) and that other requests meet no half-made answer (`Quiet`).
* `PasswordFormsProofs`: one invariant per client (`ClientInv`), since clients meet only
  in the server's files. A task runs exactly while there is a call, and then the
  button cannot be pressed (`RunsWithCall`); the data that a form keeps are those
  that the handler of the answer at hand expects (`DataFits`). The two make the
  panics unreachable. `PasswordsNoted`: the history holds the user's present
  password and the one that the answer under way was made from, which is what a
  finished login (`LoginProved`) and a change (`ChangeProved`) rest on. A file is
  stored only by `ServeRegisterFinish`, which fails unless the sealed state was made with
  the key that the server has now.
* `MigrationsProofs`: the statements of each script are lemmas (`V1Statements`, ...), and
  so is what each kind of statement does to a database. `IInv` says, for both `db` and
  `disk`, what each position of each script can rely on: where the texts are (`Sound`,
  and `Stage`: the column, the temporary column or both, the values of version 5),
  which tables the statements so far have made (`Versions`: `Ready` for the recorded
  version, `Progress` within a script), and with transactional DDL which tables there
  are exactly (`Exact`). The first two hold on every database, so that what a
  process leaves behind when it is killed on MySQL is covered. The refinement
  `UpgradeAtomic` follows from `Exact` for the tables and from `Stage` for the texts
  that a server reads: a step either leaves the durable version alone, or is the
  commit that makes it the next one.
* `MigrationToolProofs`: `Keeps` is what any step does to LLDAP: what was there is there,
  or among what others took away (`gone`). So what the tool knows stays true
  (`Known`), although it is never read again. `UsersDone`, `GroupsDone` and
  `MembersDone` say that whatever is not there yet is still in `todo`, unless
  something was given up; they begin to hold at the confirmation, because what is
  left out of `todo` is known, and what is known is there. `Course` says that the
  lists that a phase has worked on are not fetched again, which is why they
  still describe what was done when the memberships are added.

* `SearchProofs`: the invariant `IInv` is small: the tables are typed, users have an
  e-mail address, which may be empty (`MailKnown`), names of groups are unique up to case (`NamesUnique`),
  values belong to attributes of the schema (`ValuesKnown`), a search that has listed
  the users kept to the filter of its caller (`SearchState`), and a reader's schema
  lacks only what was added since (`QueryState`). `RegularSeesOwn` and
  `QueryFailsOnlyWhenRaced` are conjuncts of it; the other three are consequences of
  the first four conjuncts, for every filter. They rest on facts about filters of any
  size, proved by looking at the first node that would break them (`LeastElement`, from
  the well-foundedness of the numbers): `Truth` is well defined (`TruthExists`,
  `TruthUnfolds`); filters with the same shape whose leaves agree have the same value
  (`TruthAgrees`); without negations a filter is monotonic in its leaves
  (`TruthGrows`), three-valued logic included. What is left for `FilterMeaning` is each
  kind of leaf: SQL says what the values of the entry say (`UserEqualityMeans`,
  `UserPresentMeans`, `UserSubstringMeans`, and for groups), where the lemmas on
  distinguished names come in: what `ParseDn` makes of a DN (`ParseShape`, `ReadAt`), and
  that `IdFromDn` undoes `At` (`IdOfAt`, `AtOfId`) up to case.
  `SubtreesAgree` compares the filter that `Scoped` adds with the position in the
  tree (`UnderUnit`, `UnderAt`, and `LongSubtree` for the DNs that a name has made
  longer), and `ComparisonsTellMemberships` needs `NamesUnique` to find one group
  (`DenotedByName`).

Only model-checked: `StaleRowsRemoved`, `RestartRecovers`, `UpgradeCompletes`, `Settles`
and `SkipAllEnds`, since liveness under fairness is beyond the prover. Every other
property of a passing run is the subject of a theorem. `LogoutEnforced`, which the code does not
satisfy, has a run that shows so.

## Where the code departs from its documentation

The run `logout_enforced` shows one case. The other cases below were met while
the modules were written; the code does plainly what is said, so that no run is
spent on it, and the properties name them as exceptions.

* `check_token` does not look at `expiry_date`
  (`server/src/infra/sql_backend_handler.rs:89`): an expired refresh token is
  accepted until the cleaner deletes its row, for up to an hour
  (`docs/scripting.md:69`: valid for 30 days).
* The blacklist of a restarted server is built from `jwt_storage`
  (`server/src/infra/tcp_server.rs:193`), whose rows go with their user: a JWT that was
  logged out is accepted again until it expires if its user was deleted
  (`docs/scripting.md:68`). `RejectionStable` excepts these.
* `force_ldap_user_pass_reset` is not applied when nobody is in `lldap_admin`
  (`server/src/main.rs:147`): the start tries to create the configured user, who
  exists (`lldap_config.docker_template.toml:82-84`). `Stuck` names the state.
* The merge of a listing stops at the first attribute of an entity it has not
  listed (`server/src/domain/sql_user_backend_handler.rs:161`): everyone who sorts
  later is listed without attributes. `CompleteUnlessBlocked` names the condition.
* A start that ends while it fills in uuids leaves rows with an empty one
  (`server/src/domain/sql_migrations.rs:240`); the next start finds the column and
  goes on without them (`CHANGELOG.md:194`). With two such rows the unique index
  of a later migration cannot be created (`BlankOnlyIfTorn`, `Blocked`).
* An error of the query for the version counts as "no version"
  (`server/src/domain/sql_migrations.rs:131`): the first migration runs again, and the assertion on
  the version fails (`VersionUnread`).
* A regular user's query for their own details fails if they have a value of a
  hidden attribute (`server/src/infra/graphql/query.rs:674`; `README.md:75`).
  `QueryFailsOnlyWhenRaced` is for those who may read everything.
* `firstName`, `lastName` and `avatar` of a user in GraphQL are always empty, since
  `from_user` takes the attributes away before they are looked up
  (`server/src/infra/graphql/query.rs:298`; `schema.graphql:149`).
* The form to change a password validates when the button is pressed and registers
  the text of the field as it is when the answer comes
  (`app/src/components/change_password.rs:133`): what was typed in between is neither checked for its
  length nor confirmed (lines 34, 44 and 87 of the same file).
* The migration tool compares ids as they are spelled
  (`migration-tool/src/lldap.rs:400`): memberships of users with capitals in their ids are
  left out (`CHANGELOG.md:233`). `MembershipsMigrated` is for the others.

## Not modelled

* Object classes; parsing and formatting of HTTP, GraphQL and LDAP messages; the
  conversion of values to text and of photos.
* The pages of the front end that list and edit users, groups and attributes: they
  use the GraphQL API like any other client, keep nothing on the server, and share
  `CommonComponent` with the forms that are modelled.
* The health check opens one connection per server and exits; mail delivery is one
  step that may fail; logging is output; the merging of configuration sources is
  parsing. None keeps state in the server.
* The tables as entities are declarations; their foreign keys are the cascades of
  the modules.
* The cryptography of OPAQUE and of JWTs, which belongs to libraries.

The hazards in `PROJECT.json` that no property covers say why.

## Plan

1. Done: all modules with their runs; proofs of every safety property of every
   module, with the refinement of `SchemaUpgrade`.
2. `AccessPolicy`: an abstract specification of who may change what, by the
   permission at login, that `Directory` is shown to implement.
3. Object classes, and the editability of attributes.
