SPECIFICATION VSpec
CONSTANTS
    Catalogue <- MCCatalogue
    MaxTier = 2
    Queries <- MCQueries
    Toggles = {"P2P"}
    Sizes <- MCSizes
    Saved <- MCSaved
    Commands <- MCCommands
    MaxAsks = 2
INVARIANTS
    VTypeOK
    GridTells
PROPERTIES
    PickedSuits
    MoveShowsCursor
    BestIsChosen
