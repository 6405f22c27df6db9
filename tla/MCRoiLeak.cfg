\* Small instance for the ROI replacement race.
CONSTANTS
    Objects = {o1}
    Persons = {}
    Vehicles = {}
    None = None
    AbandonmentDwell = 1
    OwnerLostGrace = 1
    MaxOcclusionGap = 1
    PickupConfirmGap = 1
    Confirmations = 1
    MaxSamples = 1
    RatioNum = 3
    RatioDen = 5
    SampleInterval = 1
    Horizon = 2
    DeferAbandonedEvent = TRUE
    RoiRequired = TRUE
SPECIFICATION Spec
INVARIANT OldCandidatesDoNotLeak
