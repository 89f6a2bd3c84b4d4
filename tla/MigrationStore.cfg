\* Three releases, one of which has gone another way, and every failure.
SPECIFICATION FairSpec
CONSTANTS
    r1 = r1
    r2 = r2
    r3 = r3
    m1 = m1
    m2 = m2
    x1 = x1
    x2 = x2
    Runners = {r1, r2, r3}
    NoRunner = NoRunner
    Scripts = {m1, m2, x1, x2}
    Release <- Diverging
    Rerunnable = {m1, x1}
    Faults = {"busy", "io", "crash", "powerLoss"}
INVARIANTS
    TypeOK
    StoreConsistent
    ServesOwnSchema
PROPERTIES
    StoreRefined
    OnlyPowerTakesBack
    Migrates
