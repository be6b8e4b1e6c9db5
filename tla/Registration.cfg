SPECIFICATION FairSpec
INVARIANTS
  RegistrySound
  HooksSound
  NoHeartbeatAfterShutdown
PROPERTIES
  ShutdownCompletes
  RegistrationSettles
CHECK_DEADLOCK FALSE
