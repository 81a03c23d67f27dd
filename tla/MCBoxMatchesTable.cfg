\* A key that is rotated, and a tunnel that is released, while calls overlap.
CONSTANTS
    Users = {u1}
    Devices = {1}
    Servers = {s1}
    Keys = {k1, k2}
    Addresses = {2}
    RowIds = {1}
    Requests = {q1}
    Ticker = Ticker
    Admins = {}
    Nil = Nil
    NoAddress = NoAddress
    MaxRevision = 3
    MaxInlineAttempts = 2
    DeviceLimit = 1
    MaxStray = 0
    MaxRebuilds = 0
    Events = {"release"}
SYMMETRY Interchangeable
SPECIFICATION Spec
INVARIANTS BoxMatchesTable
