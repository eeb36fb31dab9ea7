SPECIFICATION Spec
CONSTANTS
  TssAddresses <- MCTssAddresses
  Stub <- MCStub
  Vectors <- MCVectors
INVARIANTS
  SelectorsLoad
  PrivilegeMatches
  FaultBlamed
  TssFound
  GatesLead
CHECK_DEADLOCK FALSE
