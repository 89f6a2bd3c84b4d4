\* The tray comes and goes, the session ends and begins again.
SPECIFICATION Spec
INVARIANTS
    TypeOK
    ServiceKept
PROPERTIES
    ExitCompletes
