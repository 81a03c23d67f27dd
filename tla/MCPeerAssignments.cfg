\* Two devices on two servers with two addresses and two keys.  Two rows:
\* every property is about one row or a pair of rows.
CONSTANTS
    Devices = {d1, d2}
    Servers = {s1, s2}
    Keys = {k1, k2}
    Addresses = {2, 3}
    RowIds = {1, 2}
    Nil = Nil
    MaxRevision = 3
SYMMETRY Interchangeable
SPECIFICATION StoreSpec
INVARIANTS StoreTypeOK OneRowPerDeviceServer AddressHeldOnce AppliedTracksRevision
PROPERTIES DesiredChangeBumpsRevision Lifecycle
