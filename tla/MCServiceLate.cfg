\* What a join that gave up leaves behind: a late thread takes the commands.
CONSTANTS
    Cameras = {c1}
    Settings = {s1, s2}
    None = None
    MaxVersion = 1
    MaxPipelines = 2
SPECIFICATION ServiceSpec
INVARIANT ZonesInForceAlways
CHECK_DEADLOCK FALSE
