\* The meta file's fsync may fail when a new file is started.
CONSTANTS
    Insts = {1, 2}
    Sizes = {1}
    FileCap = 2
    MaxFileID = 2
    MaxAppends = 4
    MaxRestarts = 1
    Failing <- MCMetaSync
SPECIFICATION LogSpec
INVARIANT RestartSucceeds
