\* Three keys, two of them under one common prefix, pages of one or two rows.
SPECIFICATION ListingSpec
CONSTANTS
    Keys = {1, 3, 4}
    Folder <- MCFolder
    UploadIds = {1, 2, 3}
    Limits = {0, 1, 2}
    Starts = {1}
    MaxChanges = 4
INVARIANTS
    ListedOnce
CHECK_DEADLOCK FALSE
