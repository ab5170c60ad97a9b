SPECIFICATION DraftSpec
CONSTANT MaxLines = 6
INVARIANT MessagesAsDocumented
CHECK_DEADLOCK FALSE
