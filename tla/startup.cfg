SPECIFICATION Spec
CONSTANTS
  EnvVals <- MCEnvVals
  Unset = Unset
  Maps <- MCMaps
  StackAddrs <- MCStackAddrs
  FrameSizes <- MCFrameSizes
  Main = Main
INVARIANTS
  CapacityUsable
  BuffersFit
  MainIsReady
