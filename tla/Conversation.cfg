SPECIFICATION FairSpec
CONSTANTS
  MaxQuestions = 2
  MaxMessages = 2
  MaxDesires = 2
  GoalCount = 2
  Capacity = 1
  Peak = 1
  Budgets <- MCBudgets
INVARIANTS
  AnswersAreReplies
  InitiativeOwned
PROPERTIES
  PressureKept
  QuestionSettles
CHECK_DEADLOCK FALSE
