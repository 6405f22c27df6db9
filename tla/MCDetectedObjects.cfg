SPECIFICATION Spec
CONSTANTS
    Ids = {o1, o2}
    Positions = {0, 1}
    MatchReach = 1
    StillShift = 0
    TwinReach = 1
    SearchReach = 1
    MinVisual = 3
    MinStatic = 3
    MinPublish = 2
    Strong = 1
    MaxLevel = 1
    MissedWeak = 0
    MissedPublished = 1
    MissedStrong = 1
    MaxStep = 1
    MaxHits = 3
SYMMETRY IdSymmetry
INVARIANTS HitsAreDistinctLooks StillnessNeedsTheDetector CarriedOnEvidence
