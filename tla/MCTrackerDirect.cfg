\* No target gate: update alerts by itself, and one frame may open an alert
\* and close another.  People pass by, but nobody is known as an owner.
CONSTANTS
    Objects = {o1, o2}
    Persons = {}
    Vehicles = {}
    None = None
    AbandonmentDwell = 2
    OwnerLostGrace = 1
    MaxOcclusionGap = 1
    PickupConfirmGap = 2
    Horizon = 3
    DeferAbandonedEvent = FALSE
SPECIFICATION FairSpec
PROPERTIES ImplementsLifecycle AbandonmentIsReported
