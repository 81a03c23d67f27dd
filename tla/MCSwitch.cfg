\* One device moving between two servers while the user releases the tunnel,
\* the device is deleted and registered again, and the control plane restarts.
CONSTANTS
    Users = {u1}
    Devices = {1}
    Servers = {s1, s2}
    Keys = {k1}
    Addresses = {2}
    RowIds = {1, 2}
    Requests = {q1}
    Ticker = Ticker
    Admins = {}
    Nil = Nil
    NoAddress = NoAddress
    MaxRevision = 2
    MaxInlineAttempts = 2
    DeviceLimit = 1
    MaxStray = 0
    MaxRebuilds = 0
    Events = {"release", "restart", "delete"}
SYMMETRY Interchangeable
SPECIFICATION Spec
INVARIANTS TypeOK
 
