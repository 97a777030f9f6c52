\* Two runs of one scenario; any two operations may fail.
CONSTANTS
    r1 = r1
    r2 = r2
    repo = repo
    NoRun = NoRun
    Runs <- MCRuns
    Repos = {repo}
    RepoOf <- MCRepoOf
    Pinned = {r1}
    MaxRestarts = 1
    MaxFaults = 2
SPECIFICATION Spec
INVARIANTS TypeOK InitRaceHasAWinner WholeScenario WorksInItsWorkspace GivesBack OnlyInFlightLeftBehind
PROPERTIES EveryRunEnds
CHECK_DEADLOCK FALSE
