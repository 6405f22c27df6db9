\* One camera with two possible settings, two accepted lists, three zone messages.
CONSTANTS
    Cameras = {c1}
    Settings = {s1, s2}
    None = None
    MaxVersion = 3
    MaxPipelines = 2
SPECIFICATION ServiceSpec
INVARIANTS SupervisorInv CleanHandover LastMessageIsRetained NoZonesLost AnalysedAsListed ZonesInForce
CHECK_DEADLOCK FALSE
