CONSTANT MaxAttempts <- MCMaxAttempts
SPECIFICATION FairSpec
INVARIANT AnswersInOrder
PROPERTIES SignallingEnds MailboxSpec
CHECK_DEADLOCK FALSE
