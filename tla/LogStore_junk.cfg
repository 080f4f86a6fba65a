\* fdatasync may fail; records have two sizes.
CONSTANTS
    Insts = {1, 2}
    Sizes = {1, 2}
    FileCap = 3
    MaxFileID = 1
    MaxAppends = 4
    MaxRestarts = 1
    Failing <- MCDataSync
SPECIFICATION LogSpec
INVARIANT AckedReadable
