\* Three changes of the camera list, among two lists and the empty one.
CONSTANTS
    Lists = {a, b}
    Empty = Empty
    None = None
    MaxChanges = 3
SPECIFICATION FairSpec
PROPERTIES RunningPipelineIsStopped LastListIsServed
CHECK_DEADLOCK FALSE
