SPECIFICATION FairSpec
CONSTANTS
  Conns = {1}
  Closers = {1, 2}
  Scripts <- MCScripts
  MaxLine = 4
  BufSize = 3
INVARIANTS
  TypeOK
  AnswersMatchLines
  BoundedLine
  ErrorMeansBroken
PROPERTIES
  ShutdownCompletes
  SilentConnectionEnds
CHECK_DEADLOCK FALSE
