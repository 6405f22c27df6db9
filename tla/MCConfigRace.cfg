\* By hand: an edit between the read and the getmtime of one reload.
CONSTANTS
    Contents = {a, b}
    Unparsable = {}
    Times = {0, 1}
SPECIFICATION FairSpec
PROPERTY ChangedFileIsReloaded
