SPECIFICATION Spec
CONSTANTS
  tableNumMaxEachType <- MCTwoTables
  IDMod = 2
  tableSizeMax = 1
  counterNumMax = 2
  groupNumMax = 0
  meterNumMax = 0
  Keys <- MCKeys
  EmBucket <- MCEmBucket
  NoTable = NoTable
  Disciplined = FALSE
  MaxEntries = 2
  MaxValue = 1
INVARIANTS
  TypeOK
  TableTypeMatchesID
  EntryNumExact
PROPERTIES
  TableDeletedEmpty
  FailureKeepsResource
  BadCounterEntryStays
