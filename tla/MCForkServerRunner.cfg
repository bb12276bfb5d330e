SPECIFICATION Spec
CONSTANT MaxRuns = 3
INVARIANT RunnerKilled
CHECK_DEADLOCK FALSE
