SPECIFICATION FairSpec
CONSTANTS
  Commands = {"release", "edited", "branch", "halved"}
  Files <- MCFiles
  ManyStatements = {"many"}
  MultiStatements = {"branch"}
  NoOne = NoOne
  NoRow = NoRow
  Absent = Absent
  Broken = Broken
  NoRun = NoRun
INVARIANTS
  TypeOK
  HistoryTellsSchema
PROPERTIES
  StepsInOrder
  LockFreed
