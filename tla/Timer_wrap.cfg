\* Ids of two bits: the fifth AddTimer gets the id of the first.
CONSTANTS
    Fds = {0, 1, 2}
    Types = {1}
    IDBits = 2
    Delays = {0, 2}
    MaxTime = 2
    MaxAdds = 5
    Objs = {o1, o2}
    NoObj = NoObj
    CreatePerTime = 1
    MaxAccepts = 2
SPECIFICATION TimerSpec
PROPERTY DeliveredToOwnerWhenDue
