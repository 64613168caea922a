\* Two posts to one session, over midnight.
SPECIFICATION Spec
CONSTANTS
    Sessions = {s1}
    Posts = {p1, p2}
    MaxIterations = 2
    Budget = 1
    LastDay = 1
SYMMETRY Symmetry
INVARIANT TypeOK
INVARIANT CallsAnswered
INVARIANT BudgetKept
CHECK_DEADLOCK FALSE
