\* Every configuration of three groups over the small catalogue.
CONSTANTS
    NumGroups = 3
    Catalogue <- SmallCatalogue
    None = "none"
SPECIFICATION FairSpec
CHECK_DEADLOCK FALSE
INVARIANTS
    GateMissesOnlyTwoRoles
    PlanNeverShares
PROPERTY PlanCompletes
