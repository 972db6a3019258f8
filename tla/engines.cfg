SPECIFICATION EngineSpec
CHECK_DEADLOCK FALSE
SYMMETRY Perms
CONSTANTS
  Callers = {c1, c2}
  Engines = {"llama", "ollama", "vllm"}
  Pids = {p1, p2}
  NoPid = NoPid
  Nobody = Nobody
  NoTag = NoTag
  Nothing = Nothing
  Specs <- MCSpecs
  Machines <- MCMachines
  HubFiles <- MCHubFiles
  HubCache <- MCHubCache
  Hosts <- MCHosts
  StartDisks <- MCStartDisks
  VllmIds <- MCVllmIds
  MaxCalls = 3
  MaxFaults = 1
  MaxBirths = 2
INVARIANTS   LaunchSound
