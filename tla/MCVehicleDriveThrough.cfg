SPECIFICATION Spec
CONSTANTS
    near = near
    far = far
    other = other
    road = road
    None = None
    Vehicles = {v1}
    Classes = {car}
    Places = {near, far, other, road}
    RoiOf <- MCRoiOf
    Overlaps <- SamePlace
    Near <- AllNear
    FilterEnabled = FALSE
    MinHits = 2
    ConfirmationWindow = 1
    MaxDetectorGap = 2
    MinDwell = 3
    HistoryWindow = 3
    MaxTrackingGap = 1
    MaxStep = 1
    MaxTime = 7
INVARIANT RelatedVehicleStopped
