SPECIFICATION MCSpec
CONSTANTS
  Slots = {s1, s2}
  Ports <- TwoPorts
  Configs <- TunAndProxies
  Settings <- MixedSettings
  MaxChecks = 1
  NoHelper = NoHelper
  Envs <- SeveralEnvs
  Requests = {r1, r2}
  MaxRuns = 2
  ProxyChain <- ThreeProxies
  Dials = {d1}
  MaxRetries = 3
  Nil = Nil
INVARIANTS
  Truthful
  NothingLeaks
  
  DialsAreSound
PROPERTIES
  RetriesPreemptKillSwitch
  ConnectingEnds
  
