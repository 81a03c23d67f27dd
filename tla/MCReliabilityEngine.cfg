\* Any event in any order, in both kill switch modes.
CONSTANTS
    c1 = c1
    c2 = c2
    Networks = {n1, n2}
    Configs = {c1, c2}
    Transports <- MCTransports
    ConfigMtu <- MCConfigMtu
    LADDER <- MCLadder
    SAFE_MTU = 1280
    Nil = Nil
SYMMETRY Interchangeable
SPECIFICATION EngineSpec
INVARIANTS EngineTypeOK GraceHoldsTraffic HonestStatus
PROPERTIES ReleasedOnlyWhenTold MtuKeptWhileConnected
