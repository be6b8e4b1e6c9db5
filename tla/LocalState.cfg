SPECIFICATION Spec
CONSTANTS
  Server = server
  Cli = cli
  Process = {server, cli}
  AnonKey = {k1, k2, k3}
  ClaimedKey = dev
  None = none
  Revision = {1, 2}
  Responses <- MCResponses
  MaxCalls = 2
  MaxFaults = 1
  MaxStarts = 2
  MaxEvents = 2
  Concerns = {{"cli"}, {"status"}, {"config"}}
SYMMETRY Symmetry
INVARIANTS
  OneKeyUnlessOverwritten
  SecretsAreServed
  FileFollowsProcess
  McpFollowsExport
PROPERTIES
  NoSecretIsSaved
CHECK_DEADLOCK FALSE
