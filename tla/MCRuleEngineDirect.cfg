\* Without a target gate and without a required ROI, as deployed.
CONSTANTS
    Objects = {o1, o2}
    Persons = {}
    Vehicles = {}
    None = None
    AbandonmentDwell = 1
    OwnerLostGrace = 1
    MaxOcclusionGap = 0
    PickupConfirmGap = 1
    Confirmations = 2
    MaxSamples = 3
    RatioNum = 3
    RatioDen = 4
    SampleInterval = 1
    Horizon = 1
    DeferAbandonedEvent = FALSE
    RoiRequired = FALSE
SPECIFICATION Spec
INVARIANTS SamplesBelongToTracks AlertedIsAnnounced
PROPERTIES EngineImplementsLifecycle
