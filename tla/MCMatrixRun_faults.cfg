\* Three entries on two lanes; any two awaits may reject.
CONSTANTS
    profileA = profileA
    profileB = profileB
    scenario = scenario
    Absent = Absent
    Defs <- MCDefs
    ProfileOf <- MCProfileOf
    ScenarioOf <- MCScenarioOf
    TasksTotal = 2
    Total = 3
    Limit = 2
    Cap = 2
    MaxCost = 2
    Outcomes <- FaultOutcomes
    Emit = {"csv", "jsonl"}
    FaultPoints <- AllStages
    MaxFaults = 2
SPECIFICATION Spec
INVARIANTS SlotsFilled SummaryLast SummariesAgree TablesSound BrokenDefinitionFailsAll CostBounded
PROPERTIES Terminates ImplementsBudgetedMatrix
CHECK_DEADLOCK FALSE
