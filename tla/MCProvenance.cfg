\* Two experiments of two entries: a profile of an earlier factor, then a preset.
CONSTANTS
    scenario = scenario
    plain = plain
    preset = preset
    older = older
    None = None
    TBD = TBD
    ScenarioSeq <- MCScenarios
    LevelSeq <- MCLevels
    FirstOfLast = 2
    Presets = {preset}
    Repetitions = 1
    Parallelism = 2
    Refused <- MCRefused
    Unchecked <- MCUnchecked
    Unhashable <- MCUnhashable
    Digest <- MCDigest
    MaxChanges = 2
    MaxExperiments = 2
SPECIFICATION Spec
INVARIANTS PinnedMeansPinned CellsComparable RefusalHasACause
CHECK_DEADLOCK FALSE
