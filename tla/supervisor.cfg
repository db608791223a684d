SPECIFICATION Spec
CONSTANTS
    Calls = 2
    Buffer = 1
INVARIANT PrimaryLeads
INVARIANT BootstrapStands
PROPERTY DemotedFollows
PROPERTY DriverSucceeds
