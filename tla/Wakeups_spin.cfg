\* No request is needed: a thread in tcp_connect and one tick.
SPECIFICATION Spec
CONSTANTS
    Tasks = {b, t1, t2}
    Busy = b
    MaxTicks = 1
    MaxRequests = 0
    CheckEvery = 2
    PollEvery = 2
INVARIANT SocketLocksNeverDeadlock
