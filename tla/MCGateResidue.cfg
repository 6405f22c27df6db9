\* By hand: an update_roi that fails on its last dictionaries leaves the gate as it was.
CONSTANTS
    Objects = {o1}
    Persons = {}
    Vehicles = {}
    None = None
    AbandonmentDwell = 1
    OwnerLostGrace = 1
    MaxOcclusionGap = 0
    PickupConfirmGap = 1
    Confirmations = 2
    MaxSamples = 3
    RatioNum = 3
    RatioDen = 4
    SampleInterval = 1
    Horizon = 1
    DeferAbandonedEvent = TRUE
    RoiRequired = TRUE
SPECIFICATION Spec
INVARIANT NoSamplesWithoutTrack
