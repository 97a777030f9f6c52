\* Two markers and no helper are enough: one task answered twice.
CONSTANTS
    task1 = task1
    task2 = task2
    reg1 = reg1
    other = other
    h1 = h1
    h2 = h2
    Absent = Absent
    Tasks = {task1, task2}
    Regressions = {reg1}
    Noise = {other}
    Helpers = {h1}
    MaxLines = 3
SPECIFICATION Spec
INVARIANTS ExactlyTheDeclaredIds
CHECK_DEADLOCK FALSE
