\* By hand: another content under the modification time that was loaded.
CONSTANTS
    Contents = {a, b}
    Unparsable = {}
    Times = {0, 1}
SPECIFICATION FairSpec
PROPERTY ChangedContentIsReloaded
