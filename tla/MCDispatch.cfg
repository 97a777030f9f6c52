CONSTANTS
    None = None
    Specs <- MCSpecs
    ProfileFiles <- MCProfileFiles
    ScenarioFiles <- MCScenarioFiles
    PluginModules <- MCPluginModules
    Keys = {"openrouter", "anthropic"}
    OnPath = {"node", "python3"}
    UserModels = {"openrouter"}
    PiModels <- MCPiModels
SPECIFICATION Spec
CHECK_DEADLOCK FALSE
INVARIANTS
    MatrixIsFactorial
    PathsAgree
    FilesFollowIds
    FailuresHaveACause
    SameFate
    PreviewHolds
    GatesWarned
