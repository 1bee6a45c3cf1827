SPECIFICATION Spec
CONSTANTS
  Slots = {s1, s2}
  Ports <- OnePort
  Configs <- TunAndProxies
  Settings <- DefaultSettings
  MaxChecks = 1
  NoHelper = NoHelper
  Envs <- CalmOnly
PROPERTY
  DropNeverUnblocks
