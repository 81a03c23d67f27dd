\* One device on one server rotating between two keys and releasing its tunnel, with
\* one call late on the wire.
CONSTANTS
    Users = {u1}
    Devices = {1}
    Servers = {s1}
    Keys = {k1, k2}
    Addresses = {2}
    RowIds = {1}
    Requests = {q1}
    Ticker = Ticker
    Admins = {}
    Nil = Nil
    NoAddress = NoAddress
    MaxRevision = 3
    MaxInlineAttempts = 2
    DeviceLimit = 1
    MaxStray = 1
    MaxRebuilds = 0
    Events = {"release"}
SYMMETRY Interchangeable
SPECIFICATION Spec
INVARIANTS CallsNameTheirRevision AnsweredWasInstalled
PROPERTIES StoreSpec
