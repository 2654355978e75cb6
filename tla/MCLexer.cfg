CONSTANTS
  Files <- MCFiles
  YY_BUF_SIZE = 2
  YY_READ_BUF_SIZE = 3
SPECIFICATION FairSpec
INVARIANTS TypeOK NothingLost LocatesTheText EndsWhereTheFileEnds
PROPERTIES ImplementsTokenStream ReachesEndOfFile
CHECK_DEADLOCK FALSE
