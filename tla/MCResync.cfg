\* A box is rebuilt once.  The health sweep's resync, an admin's resync and reconcile-now,
\* the ticker's pass and a request are all about one row, which is also released.
CONSTANTS
    Users = {u1}
    Devices = {1}
    Servers = {s1}
    Keys = {k1}
    Addresses = {2}
    RowIds = {1}
    Requests = {q1}
    Ticker = Ticker
    Admins = {a1}
    Nil = Nil
    NoAddress = NoAddress
    MaxRevision = 2
    MaxInlineAttempts = 2
    DeviceLimit = 1
    MaxStray = 0
    MaxRebuilds = 1
    Events = {"release", "reconcile", "resync", "health"}
SYMMETRY Interchangeable
SPECIFICATION Spec
INVARIANTS CallsNameTheirRevision ConfirmedByEdge
