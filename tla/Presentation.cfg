SPECIFICATION FairSpec
CONSTANTS
    Runs = {r1, r2, r3, r4}
    MaxProjections = 2
    MaxNotifications = 6
CHECK_DEADLOCK FALSE
INVARIANTS ChangeIsRemembered
PROPERTIES EveryChangeShown
