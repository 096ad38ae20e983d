SPECIFICATION FairSpec
CONSTANTS
  tableNumMaxEachType <- MCTableNum
  IDMod = 256
  GroupAnywhere = FALSE
  Tables <- MCTables
  Groups <- MCGroups
  Meters = {1}
  Counters = {1}
  Ports = {1, 2, 3}
  NoFlood = {3}
  PacketLens = {60, 1514}
  PacketOuts <- MCPacketOuts
  FieldValues = {0, 12}
  FieldMod = 64
  POFDP_PACKET_RAW_MAX_LEN = 2048
  POFDP_PACKET_PREBUF_LEN = 128
  POF_MTU_LENGTH = 1514
  POFDP_METADATA_MAX_LEN = 128
  POF_PACKET_IN_MAX_LENGTH = 2048
  POF_MAX_INSTRUCTION_NUM = 6
  counterNumMax = 4
INVARIANTS
  TypeOK
  CountersAgree
  
  WholeLength
  PacketInTruthful
  
PROPERTIES
  NothingAfterDone
  
