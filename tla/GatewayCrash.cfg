\* Gateways crash.
SPECIFICATION FairSpec
CONSTANTS
    g1 = g1
    g2 = g2
    g3 = g3
    Gateways = {g1, g2}
    NoGateway = NoGateway
    MaxInFlight = 3
    Faults = {"crash"}
PROPERTIES
    CrashShown
