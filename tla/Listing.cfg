SPECIFICATION ListingSpec
CONSTANTS
    Id <- ThreeIds
    Attribute <- TwoAttributes
INVARIANTS ListingTypes OnlyOwnAttributes CompleteUnlessBlocked
