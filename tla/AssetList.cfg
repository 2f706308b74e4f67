SPECIFICATION ListSpec
CONSTANTS
  Keys <- MCKeys
  Match <- MCMatch
  Named <- MCNamed
  Number <- MCNumber
  Databases <- MCDatabases
  Confs <- MCConfs
  Heights = {8, 10}
  MaxKeys = 2
INVARIANT PagesCoverResults NumbersAsDrawn
CHECK_DEADLOCK FALSE
