SPECIFICATION Spec
CONSTANTS
  DevKey = {"dev1", "dev2"}
  AnonKey = {"anon1", "anon2", "anon3"}
  Agent = {"claude", "codex", "gemini", "cursor", "windsurf"}
  ClaimedKey = "dev2"
  Projects <- SrcLayout
  InitOptions <- JustYes
  MaxCommands = 2
  MaxFaults = 0
  MaxClaims = 0
PROPERTY UninitReverses
CHECK_DEADLOCK FALSE
