SPECIFICATION Spec
INVARIANTS MatchesReference StateMatches
CONSTANT MaxTyped = 6
CHECK_DEADLOCK FALSE
