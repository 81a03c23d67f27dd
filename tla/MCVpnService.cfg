\* Two networks, two starts and one refresh in flight.
CONSTANTS
    Networks = {n1, n2}
    Configs = {c1}
    Transports <- UdpOnly
    ConfigMtu <- MCConfigMtu
    LADDER <- MCLadder
    SAFE_MTU = 1280
    Slots = {j1, j2}
    MaxRefreshes = 1
    Nil = Nil
SYMMETRY Interchangeable
SPECIFICATION ServiceSpec
INVARIANTS  GraceTimerRuns
 
