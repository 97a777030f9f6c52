\* One profile or scenario does not load; no file operation fails.
CONSTANTS
    profileA = profileA
    profileB = profileB
    scenario = scenario
    Absent = Absent
    Defs <- MCDefs
    ProfileOf <- MCProfileOf
    ScenarioOf <- MCScenarioOf
    TasksTotal = 2
    Total = 2
    Limit = 2
    Cap = 2
    MaxCost = 2
    Outcomes <- BudgetOutcomes
    Emit = {"csv"}
    FaultPoints = {"load"}
    MaxFaults = 1
SPECIFICATION Spec
INVARIANTS RowsEqualMatrix
CHECK_DEADLOCK FALSE
