\* One reload is enough.
CONSTANTS
    Contents = {a, b}
    Unparsable = {}
    Times = {0, 1}
SPECIFICATION FairSpec
PROPERTY LoadedConfigIsUsed
