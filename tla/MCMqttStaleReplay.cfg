\* One camera, a second zone message during the replay of the first.
CONSTANTS
    Cameras = {c1}
    None = None
    MaxVersion = 2
    MaxPipelines = 1
SPECIFICATION Spec
INVARIANT LatestZonesApplied
