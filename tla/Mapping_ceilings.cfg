SPECIFICATION MappingSpec
CHECK_DEADLOCK FALSE
CONSTANTS
  MapId = {"self", "p", "u", "case1"}
  Self = "self"
  VisRef <- MCVisRef
  Stub <- MCStub
  Allowlists <- MCAllowlists
  Claims <- MCClaims
  Ceilings <- MCCeilings
  EdgeMappings <- MCEdgeMappings
  MaxEdges = 2
INVARIANTS RegistrationFixesCeilings
