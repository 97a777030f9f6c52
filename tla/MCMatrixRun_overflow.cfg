\* Runs that exceed their token cap, on one lane; nothing else fails.
CONSTANTS
    profileA = profileA
    profileB = profileB
    scenario = scenario
    Absent = Absent
    Defs <- MCDefs
    ProfileOf <- MCProfileOf
    ScenarioOf <- MCScenarioOf
    TasksTotal = 2
    Total = 3
    Limit = 1
    Cap = 1
    MaxCost = 2
    Outcomes <- FaultOutcomes
    Emit = {"csv"}
    FaultPoints = {}
    MaxFaults = 0
SPECIFICATION Spec
PROPERTIES StopsStartsOverCap
CHECK_DEADLOCK FALSE
