\* Two lists are enough for two pipelines.
CONSTANTS
    Lists = {a, b}
    Empty = Empty
    None = None
    MaxChanges = 2
SPECIFICATION Spec
INVARIANT OnePipelinePlays
CHECK_DEADLOCK FALSE
