\* Two payloads, a queue bound of 1 (so the queue holds up to 2) and three
\* sends; StopNetWork may come at any time after RunNetWork.
CONSTANTS
    Msgs = {m1, m2}
    UDP_QUEUE_MAXLEN = 1
    MaxAdds = 3
SPECIFICATION NetSpec
INVARIANT NoThreadAfterDelete
CHECK_DEADLOCK FALSE
