SPECIFICATION FairSpec
CONSTANTS
    User = {"u"}
    Password = {"p", "q", "s"}
    Key = {"k1", "k2"}
    NoPassword = "none"
    NoKey = "nokey"
    Client = {"c"}
    Fields <- MCFields
    Long = {"p", "q"}
INVARIANTS FormsNeverPanic LoginByPassword ChangeNeedsOld
PROPERTIES FilesUsable Settles
