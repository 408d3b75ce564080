SPECIFICATION FairSpec
CONSTANTS
    Text <- MCText
    Lower <- MCLower
    LdapUsers <- MCUsers
    LdapGroups <- MCGroups
    FirstUsers = {"bob"}
    FirstGroup = "Eve"
    MaxOthers = 2
INVARIANTS KnownTrue AllCreated MembershipsMigrated
PROPERTIES SkipAllEnds
