\* One session of at most four events with the three fallbacks of the code.
CONSTANTS
    MaxFallbacks = 3
    None = None
    Tools <- MCTools
    Paths = {"a"}
    PiEvents <- MCPiEvents
    Profiles <- MCProfiles
    Windows = {0, 8}
    MaxEvents = 4
SPECIFICATION Spec
INVARIANTS TypeOK ReportIsFinal AbortedIsTold CountersAgree RulesAgree CellsAreMeasured
PROPERTIES SessionEnds RequestsAreExplained
CHECK_DEADLOCK FALSE
