CONSTANTS
    Docs = {d1}
    MaxVersion = 2
    Noise = {"tombstone", "unknownop", "notext", "snapshot"}
    Budget <- AllFaults
SPECIFICATION FairSpec
INVARIANTS
    TypeOK
    LossesLogged
    LanesInOrder
PROPERTIES
    EverythingEmitted
