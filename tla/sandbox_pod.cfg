SPECIFICATION Spec
CONSTANTS
  Inputs <- AllInputs
  SandboxName = "sb"
  DefaultPort = 8888
  Clients = {1, 2}
  Paths <- SomePaths
  Uploads <- SomeUploads
INVARIANTS EnvAsAsked MountsAsAsked ArgvAsQuoted FileReadsBack
CHECK_DEADLOCK FALSE
