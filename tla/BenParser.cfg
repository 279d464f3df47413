SPECIFICATION Spec
CONSTANTS
  MaxStack = 12
  MaxTokens = 10
INVARIANTS TypeOK StatusAgrees StacksAgree AcceptsAtEnd TreeAgrees
CHECK_DEADLOCK FALSE
