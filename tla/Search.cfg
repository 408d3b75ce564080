SPECIFICATION Spec
CONSTANTS
    UserId = {"a", " a"}
    GroupId = {"1", "2"}
    LowerOf <- MCLowerOf
    Pieces <- MCPieces
    Uuid <- MCUuid
    UserAttribute = {"nick"}
    GroupAttribute = {}
    AttributeType <- MCType
    Numeral = {}
    UserClass = {"person"}
    GroupClass = {"groupofuniquenames"}
    BaseDn <- MCBaseDn
    LdapFilter <- MCFewFilters
    RequestFilter <- MCRequestFilters
    SearchBase <- MCFewBases
    AnyFilter <- MCFilters
    Requested <- MCRequested
    Mail = {"A", ""}
    Name = {"", "A"}
    GroupName = {"G", "g", "g,h"}
    AttributeText = {"A"}
INVARIANTS RegularSeesOwn QueryFailsOnlyWhenRaced FilterMeaning SubtreeConsistent ComparesMembers
