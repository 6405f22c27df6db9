SPECIFICATION Spec
CONSTANTS
    near = near
    far = far
    other = other
    road = road
    None = None
    Vehicles = {v1}
    Classes = {car, truck}
    Places = {near, other, road}
    RoiOf <- MCRoiOf
    Overlaps <- SamePlace
    Near <- SamePlace
    FilterEnabled = TRUE
    MinHits = 2
    ConfirmationWindow = 1
    MaxDetectorGap = 2
    MinDwell = 2
    HistoryWindow = 2
    MaxTrackingGap = 1
    MaxStep = 2
    MaxTime = 6
INVARIANTS ConfirmedIffRepeated EvidenceIsContinuous RelatedVehicleDwelt DwellIsRemembered
SYMMETRY ClassSymmetry
