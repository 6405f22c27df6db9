\* Three contents, one of them not YAML, and three modification times.
CONSTANTS
    Contents = {a, b, half_written}
    Unparsable = {half_written}
    Times = {0, 1, 2}
SPECIFICATION FairSpec
PROPERTY SettledFileIsLoaded
