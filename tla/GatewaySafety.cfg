\* Three gateways and every fault of the environment but a late report of QProcess::start().
SPECIFICATION Spec
CONSTANTS
    g1 = g1
    g2 = g2
    g3 = g3
    Gateways = {g1, g2, g3}
    NoGateway = NoGateway
    MaxInFlight = 3
    Faults = {"bootFails", "startFails", "crash", "desktopCrash", "foreignLaunch", "foreignShutdown", "incompatible"}
SYMMETRY Symmetry
INVARIANTS
    TypeOK
    ChildOwned
    StateHonest
    ShutdownLeavesNothing
    RecoveryArmed
    RestartPursued
    StoppedIsDisarmed
    ReadyIsCompatible
PROPERTIES
    ShutdownIsFinal
    ChildrenOneByOne
    ServiceRefined
