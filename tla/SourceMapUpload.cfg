SPECIFICATION UploadSpec
CONSTANTS
  Compiler = {"client", "server"}
  MapsOf <- MCMapsOf
  Bytes <- MCBytes
  Threshold = 3
  Concurrency = 2
  MaxJobs = 2
INVARIANTS
  UploadSound
CHECK_DEADLOCK FALSE
