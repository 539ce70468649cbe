SPECIFICATION FLSpec
CONSTANTS
  FLLists = {"x"}
  FLRefreshers = {"r1"}
  FLRegexEntry = TRUE
  FLEdits = 3
  FLFetches = 2
INVARIANT UserListsUntouched
CHECK_DEADLOCK FALSE
