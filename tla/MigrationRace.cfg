\* Two gateways of one release are started; nothing fails.
SPECIFICATION Spec
CONSTANTS
    r1 = r1
    r2 = r2
    r3 = r3
    m1 = m1
    m2 = m2
    x1 = x1
    x2 = x2
    Runners = {r1, r2}
    NoRunner = NoRunner
    Scripts = {m1, m2, x1, x2}
    Release <- SameRelease
    Rerunnable = {}
    Faults = {}
INVARIANTS
    NeverDisagree
