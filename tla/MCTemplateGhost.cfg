\* By hand: a template that goes on matching keeps the track of a thing that was taken away.
SPECIFICATION FairSpec
CONSTANTS
    Objects = {o1}
    Persons = {p}
    None = None
    Places = {0, 1}
    Rois = {{0}, {1}}
    AbandonmentDwell = 1
    OwnerLostGrace = 1
    MaxOcclusionGap = 1
    PickupConfirmGap = 1
    Horizon = 2
    NearReach = 0
    MarginReach = 0
    OwnerReach = 1
    HistoryWindow = 1
    MatchReach = 0
    CoverReach = 0
    SearchReach = 1
    WeakMissed = 0
    StrongMissed = 1
    VerifyReach = 1
    MaxMissed = 2
    StaticConfirm = 2
    Modes = {TRUE}
PROPERTIES VanishedIsForgottenAlways
