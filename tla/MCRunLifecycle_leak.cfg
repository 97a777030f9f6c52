\* Two runs of one scenario; any one operation fails.
CONSTANTS
    r1 = r1
    r2 = r2
    repo = repo
    NoRun = NoRun
    Runs <- MCRuns
    Repos = {repo}
    RepoOf <- MCRepoOf
    Pinned = {r1}
    MaxRestarts = 0
    MaxFaults = 1
SPECIFICATION Spec
INVARIANTS CleanupRuns
CHECK_DEADLOCK FALSE
