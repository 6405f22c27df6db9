\* Two objects side by side; two of three predictions must agree.
CONSTANTS
    Objects = {o1, o2}
    Persons = {}
    Vehicles = {}
    None = None
    AbandonmentDwell = 1
    OwnerLostGrace = 1
    MaxOcclusionGap = 0
    PickupConfirmGap = 1
    Confirmations = 2
    MaxSamples = 3
    RatioNum = 3
    RatioDen = 4
    SampleInterval = 1
    Horizon = 1
    DeferAbandonedEvent = TRUE
    RoiRequired = TRUE
SPECIFICATION Spec
INVARIANTS SamplesBelongToTracks AlertedIsAnnounced
PROPERTIES AlertNeedsConsensus EngineImplementsLifecycle VerdictIsReached
