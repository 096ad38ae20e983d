SPECIFICATION Spec
CONSTANTS
  tableNumMaxEachType <- MCOneTable
  IDMod = 1
  tableSizeMax = 2
  counterNumMax = 3
  groupNumMax = 1
  meterNumMax = 1
  Keys <- MCOneKey
  EmBucket <- MCEmBucket
  NoTable = NoTable
  Disciplined = TRUE
  MaxEntries = 2
  MaxValue = 1
INVARIANTS
  
  CounterOfOwnerExists
  DisciplinedSurvives
