CONSTANT MaxAttempts <- MCMaxAttempts
SPECIFICATION FairSpec
PROPERTY ReturnsAfterGameExit
CHECK_DEADLOCK FALSE
