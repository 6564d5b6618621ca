CONSTANTS
    Docs = {d1}
    MaxVersion = 2
    Noise = {}
    Budget <- ProduceFault
SPECIFICATION Spec
INVARIANTS
    NothingLost
