\* Five timers, ids of three bits: the counter does not come round.  Three
\* accepted sockets on two fds and two event addresses, one event created
\* per CreateEvent: fds and addresses are reused after ClearEvent.
CONSTANTS
    Fds = {0, 1, 2}
    Types = {1}
    IDBits = 3
    Delays = {0, 2}
    MaxTime = 2
    MaxAdds = 3
    Objs = {o1, o2}
    NoObj = NoObj
    CreatePerTime = 1
    MaxAccepts = 3
SPECIFICATION TimerSpec
INVARIANT TimerTypeOK EventTableSound
PROPERTY DeliveredToOwnerWhenDue
