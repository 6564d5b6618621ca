CONSTANTS
    Workers = {w1, w2}
    Modes = {"backfill", "stream"}
    Batches <- SomeBatches
    Refills <- SomeRefills
    Ticks = 2
    Count = 9
    Duration = 2
    UpdatePct = TRUE
SPECIFICATION FairSpec
INVARIANTS
    TypeOK
    RateBounded
    EveryDocumentOnce
PROPERTIES
    Terminates
