\* Gateways of other desktops, orphans of this one, and late reports of QProcess::start().
SPECIFICATION FairSpec
CONSTANTS
    g1 = g1
    g2 = g2
    g3 = g3
    Gateways = {g1, g2}
    NoGateway = NoGateway
    MaxInFlight = 2
    Faults = {"desktopCrash", "foreignLaunch", "lateStart"}
PROPERTIES
    SettlesServed
    SettlesReady
    ShutdownIsFinal
