SPECIFICATION Spec
CONSTANTS
  Hashes = {h1, h2}
  Handles = {g1, g2}
  Adders = {a1}
  Workers = {w1}
  Jobs = {j1}
  None = None
  Envs <- CalmOnly
SYMMETRY Symmetry
PROPERTY
  KillSwitchSeesAll
