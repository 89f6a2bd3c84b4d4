\* The tray menu while the prompt is open.
SPECIFICATION Spec
INVARIANTS
    TrayExitExits
