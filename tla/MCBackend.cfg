SPECIFICATION MCSpec
CONSTANTS
  Hashes = {h1, h2}
  Handles = {g1, g2}
  Adders = {a1, a2}
  Workers = {w1, w2}
  Jobs = {j1}
  None = None
  Types = {a}
  Polls = {q1, q2}
  MaxEvents = 3
  MaxToasts = 2
  Envs <- SeveralEnvs
SYMMETRY Symmetry
INVARIANTS
  RegisteredIsSound
  PrivacyHolds
  ListIsComplete
  

  
