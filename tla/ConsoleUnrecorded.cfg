SPECIFICATION ConsoleSpec
CHECK_DEADLOCK FALSE
INVARIANT TeardownIsOnRecord
