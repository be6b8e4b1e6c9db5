SPECIFICATION Spec
CONSTANTS
  DevKey = {"dev1", "dev2"}
  AnonKey = {anon1, anon2, anon3}
  Agent = {"claude", "codex", "gemini", "cursor", "windsurf"}
  ClaimedKey = "dev2"
  Projects <- AllProjects
  InitOptions <- AnOption
  MaxCommands = 2
  MaxFaults = 1
  MaxClaims = 1
SYMMETRY KeySymmetry
INVARIANTS
  ProjectSound
PROPERTIES
  FailedInitRestores
  CredentialsSurvive
  UninitRestores
  CommandsSettle
CHECK_DEADLOCK FALSE
