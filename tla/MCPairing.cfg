SPECIFICATION Spec
CONSTANTS
  d = d
  t1 = t1
  Daemon = d
  MISSING = MISSING
  EMPTY = EMPTY
  GARBLED = GARBLED
  NONE = NONE
  Keys <- MCKeys
  BadKeys <- MCBadKeys
  Digest <- MCDigest
  Procs <- MCProcs
  Tools <- MCTools
  Generated <- MCGenerated
  PeerRecords <- MCPeerRecords
  ToolRecords <- MCToolRecords
  Documents <- MCDocuments
  Loads <- MCLoads
INVARIANTS
  TypeOK
  OneIdentity
  TrustIsConfirmed
PROPERTIES
  RefusedIsKept
  TrustSpec
CHECK_DEADLOCK FALSE
