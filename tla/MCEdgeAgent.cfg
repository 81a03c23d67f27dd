\* Two requests at a time about two keys and two addresses, each of which a
\* rotation, a resync or a crash may hand from one key to the other.
CONSTANTS
    k1 = k1
    k2 = k2
    Keys = {k1, k2}
    Addresses = {1, 2}
    Handlers = {h1, h2}
    Calls <- MCCalls
    NoCall = NoCall
    Nil = Nil
    NoAddress = NoAddress
    Unknown = Unknown
SPECIFICATION FairSpec
INVARIANTS AgentTypeOK AcknowledgedSurvives HalfWayIsAllowed NeverBothKeys
PROPERTIES AtomicSpec EveryRequestIsAnswered
