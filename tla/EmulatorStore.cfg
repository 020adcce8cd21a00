CONSTANTS
  Clients = {c1, c2}
  MaxID = 5
  MaxVersion = 2
  MaxChanges = 3
  MaxEntities = 4
  Size = 2
  Caps = {1, 2}
  MaxItems = 5
SPECIFICATION Spec
INVARIANTS EachChangeOnce NothingTwice WholeAnswer NoFalseAlarm
PROPERTY WalkEnds
CHECK_DEADLOCK FALSE
