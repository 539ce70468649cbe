CONSTANTS HSCalls = 3
 HSClients = {i1}
SPECIFICATION HSSpec
INVARIANTS SettingNotLost
CHECK_DEADLOCK FALSE
