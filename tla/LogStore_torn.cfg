\* write() may stop anywhere in a record, inside its 12-byte head too, and
\* the process may crash after it.
CONSTANTS
    Insts = {1, 2}
    Sizes = {1, 2}
    FileCap = 3
    MaxFileID = 2
    MaxAppends = 6
    MaxRestarts = 3
    Failing <- MCShortWrites
SPECIFICATION LogSpec
INVARIANT RestartSucceeds
