\* The user exits.
SPECIFICATION Spec
PROPERTIES
    ExitEndsProcess
