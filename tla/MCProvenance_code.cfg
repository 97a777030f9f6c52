\* Two experiments of one scenario; between them its code is edited and its hash pinned again.
CONSTANTS
    scenario = scenario
    plain = plain
    preset = preset
    older = older
    None = None
    TBD = TBD
    ScenarioSeq <- MCScenarios
    LevelSeq <- MCCodeLevels
    FirstOfLast = 1
    Presets = {}
    Repetitions = 1
    Parallelism = 1
    Refused = {}
    Unchecked = {}
    Unhashable = {}
    Digest <- MCOwnDigest
    MaxChanges = 2
    MaxExperiments = 2
SPECIFICATION Spec
INVARIANTS CodeIsRecorded
CHECK_DEADLOCK FALSE
