CONSTANT MaxChunks <- MCMaxChunks
SPECIFICATION Spec
PROPERTY NoPollAfterCancel
CHECK_DEADLOCK FALSE
