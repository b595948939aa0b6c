CONSTANTS
  MaxRows = 3
  MaxPieces = 4
  empty = empty
  x = x
  y = y
  Plans <- MCPlans
  Costs <- MCCosts
SPECIFICATION StatementSpec
INVARIANT ContentExplainsScore
INVARIANTS ValuesAreReplacedElsewhere OverrunByShortLists
INVARIANTS NamedBlockIsUsed CostIsOfStatement
CHECK_DEADLOCK FALSE
