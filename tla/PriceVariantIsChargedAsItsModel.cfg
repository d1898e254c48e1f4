SPECIFICATION Spec
CONSTANTS
    seeded = seeded
    edited = edited
    NoRow = NoRow
    Models <- MCModels
    Prices <- MCPrices
    Seed <- MCSeed
    Callers = {c1}
INVARIANTS
    VariantIsChargedAsItsModel
