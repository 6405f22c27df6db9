SPECIFICATION Spec
CONSTANTS
    Persons = {p1}
    Positions = {0, 1, 2, 3}
    None = None
    StationaryDistance = 0
    MatchDistance = 1
    MinDwell = 2
    MaxZones = 2
    DepartureConfirm = 2
    ForgetAfter = 3
PROPERTY PassersByMakeNoZone
