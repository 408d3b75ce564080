SPECIFICATION FairSpec
CONSTANTS
    Users = {u1, u2}
    Groups = {g1}
    Backends = {"sqlite", "postgres", "mysql"}
    OldVersions = {0, 1, 2, 3, 4, 5, 6, 7, 8, 9, 10, 11}
    OldNames = {"display_name", "first_name"}
    MaxKills = 1
    MaxErrors = 1
INVARIANTS NamesKept VersionNeverAhead BlankOnlyIfTorn
PROPERTIES UpgradeAtomic UpgradeCompletes
