\* A target gate decides on alerts: update only requests verification.
CONSTANTS
    Objects = {o1}
    Persons = {p1, p2}
    Vehicles = {v1}
    None = None
    AbandonmentDwell = 3
    OwnerLostGrace = 2
    MaxOcclusionGap = 2
    PickupConfirmGap = 2
    Horizon = 4
    DeferAbandonedEvent = TRUE
SPECIFICATION FairSpec
INVARIANT TrackerInv
PROPERTIES ImplementsLifecycle AlertOnlyAfterAbsence SilentStaysSilent AttributionIsFinal GoneIsForgotten
