\* Up to three markers; the script and its helpers may do as they please.
CONSTANTS
    task1 = task1
    task2 = task2
    reg1 = reg1
    other = other
    h1 = h1
    h2 = h2
    Absent = Absent
    Tasks = {task1, task2}
    Regressions = {reg1}
    Noise = {other}
    Helpers <- MCHelpers
    MaxLines = 3
SPECIFICATION Spec
INVARIANTS TypeOK VerdictReadsAllOutput CompletedIsCounted
PROPERTIES OracleSettles
CHECK_DEADLOCK FALSE
