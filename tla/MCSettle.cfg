\* One device on one server. Boxes fail, answers get lost, the control plane
\* restarts, and requests come and go without any fairness.
CONSTANTS
    Users = {u1}
    Devices = {1}
    Servers = {s1}
    Keys = {k1}
    Addresses = {2}
    RowIds = {1}
    Requests = {q1}
    Ticker = Ticker
    Admins = {}
    Nil = Nil
    NoAddress = NoAddress
    MaxRevision = 3
    MaxInlineAttempts = 2
    DeviceLimit = 1
    MaxStray = 0
    MaxRebuilds = 0
    Events = {"expire", "restart"}
SPECIFICATION SettleSpec
PROPERTIES DesiredStateIsReached ExpiryTakesPeersOff
